---- MODULE Spec2Model ----
(***************************************************************************)
(* Running dashboard: the recommendation scheduler                         *)
(* (RecommendationService.generate behind GET /api/recommendations),      *)
(* the consistency analyser (DatabaseService.getConsistencyStats) and the  *)
(* analysers of StatsService behind the routes of /api/stats (summary,     *)
(* pace progress, location clusters, personal records, 5k prediction).     *)
(*                                                                         *)
(* Time.  A calendar day is an integer; day 0 is a Sunday, so that         *)
(* d % 7 is JavaScript's Date.getDay() (0 = Sunday .. 6 = Saturday).       *)
(* An instant is counted in half days: instant t lies on local day         *)
(* t \div 2.  A JavaScript Date that holds a local midnight is modelled by *)
(* its local day.                                                          *)
(* Numbers.  Distances of stored runs are metres, plan distances are km.   *)
(* Math.round(n / d) is computed exactly (round half up); for the factors  *)
(* 1.1^w, 0.25, 0.15, 0.30 and 1/8 and the integers in range the IEEE      *)
(* double results of the source agree with the exact ones.                 *)
(***************************************************************************)
EXTENDS Integers, Sequences, FiniteSets

VARIABLES
    runs,            \* rows of table runs
    parkrunResults,  \* rows of table parkrun_results (their parkrun_date day)
    parkrunEnabled,  \* config.parkrun.enabled
    tzEast,          \* the server's zone is east of UTC (local midnight is the previous UTC date)
    today,           \* local day of new Date()
    req,             \* the last request to GET /api/recommendations
    res,             \* its response, with the locals of generate
    stats,           \* outcome of the last getConsistencyStats call
    analytics,       \* outcome of the last call of another analyser of StatsService
    syncMetadata,    \* table sync_metadata: the value of key last_strava_sync
    strava,          \* config.strava: the tokens
    polls,           \* the calls of StravaService.pollActivities, each with its position
    scrape           \* the parkrun site and the outcome of the last scrapeResults call

vars == <<runs, parkrunResults, parkrunEnabled, tzEast, today, req, res, stats, analytics,
          syncMetadata, strava, polls, scrape>>

-----------------------------------------------------------------------------
(* Bounds of the model *)

MaxRuns == 5
MaxWeeksQuery == 13
MaxParkruns == 2
MaxStored == 4
MaxFillers == 22
MaxListed == 2
MaxTicks == 1
MaxScrapes == 2

(* JavaScript's undefined / NaN for an absent number *)
Undefined == -1000

(* Program constants *)
RecentWindowDays == 56
ParkrunDistance == 5
MinWeeklyTarget == 5
EasyRunCap == 10
DefaultWeeks == 4
MinWeeks == 1
MaxWeeks == 12
MinGoal == 5
MaxGoal == 200
Saturday == 6
Sunday == 0

-----------------------------------------------------------------------------
(* Inputs *)

TodaySet == {700, 703}

(* The runs that may be stored: [id, t (instant of start_date_local), distance (m)] *)
RunUniverse ==
    { [id |-> 1, t |-> 1398, distance |-> 20000],   \* day 699, Saturday
      [id |-> 2, t |-> 1386, distance |-> 20000],   \* day 693, Sunday
      [id |-> 3, t |-> 1390, distance |-> 5000],    \* day 695, Tuesday
      [id |-> 4, t |-> 1392, distance |-> 8000],    \* day 696, Wednesday
      [id |-> 5, t |-> 1388, distance |-> 10000],   \* day 694, Monday
      [id |-> 6, t |-> 1289, distance |-> 3000] }   \* day 644, Sunday: 56 days before day 700

(* The parkrun results that may be stored: the day of parkrun_date *)
ParkrunUniverse == {692, 697, 698}

(* the weeks parameter of GET /api/stats/weekly-distance *)
WeeksBackSet == {1, 12}

(* the days parameter of GET /api/stats/consistency *)
DaysSet == {7, 30, 90}

WeeksQuerySet == {Undefined, -1, 0, 1, 3, MaxWeeks, MaxWeeksQuery}
GoalQuerySet == {Undefined, 4, MaxGoal, 201}

-----------------------------------------------------------------------------
(* Arithmetic helpers *)

Min(a, b) == IF a <= b THEN a ELSE b
Max(a, b) == IF a >= b THEN a ELSE b
Abs(a) == IF a < 0 THEN -a ELSE a

(* Math.round(n / d) for n >= 0, d > 0: round half up *)
Round(n, d) == (2 * n + d) \div (2 * d)

RECURSIVE Pow(_, _)
Pow(b, e) == IF e = 0 THEN 1 ELSE b * Pow(b, e - 1)

(* JavaScript truthiness of a number: undefined, NaN and 0 are falsy *)
Falsy(x) == x = Undefined \/ x = 0

(* a || b *)
OrElse(a, b) == IF Falsy(a) THEN b ELSE a

RECURSIVE SumOver(_, _)
SumOver(S, f) ==
    IF S = {} THEN 0
    ELSE LET x == CHOOSE y \in S : TRUE IN f[x] + SumOver(S \ {x}, f)

Range(s) == {s[i] : i \in 1..Len(s)}

RECURSIVE SelectSeq2(_, _)
(* Array.prototype.filter(d => d \notin drop) *)
SelectSeq2(s, drop) ==
    IF s = <<>> THEN <<>>
    ELSE IF Head(s) \in drop THEN SelectSeq2(Tail(s), drop)
         ELSE <<Head(s)>> \o SelectSeq2(Tail(s), drop)

-----------------------------------------------------------------------------
(* Dates *)

LocalDay(t) == t \div 2
GetDay(d) == d % 7
Now == 2 * today + 1

(* date.toISOString().split('T')[0] of a Date holding local midnight of day d:
   the UTC calendar date, which is the previous day east of UTC *)
ISODate(d) == IF tzEast THEN d - 1 ELSE d

(* getWeekStartDate(date, weeksAgo) *)
GetWeekStartDate(d0, weeksAgo) ==
    LET d == d0 - weeksAgo * 7
        day == GetDay(d)
    IN d - day + (IF day = 0 THEN -6 ELSE 1)

-----------------------------------------------------------------------------
(* Math.round(c * Math.pow(1.1, w)), exactly.  c * 11^w does not fit a 32-bit
   integer for w up to 11, so it is kept as hi * Limb + lo. *)

Limb == 1000000

RECURSIVE Times11(_, _)
Times11(c, w) ==
    IF w = 0 THEN <<c \div Limb, c % Limb>>
    ELSE LET p == Times11(c, w - 1)
             x == p[2] * 11
         IN <<p[1] * 11 + x \div Limb, x % Limb>>

RoundGrowth(c, w) ==
    IF w = 0 THEN c
    ELSE LET p == Times11(c, w)
         IN IF w <= 6
            THEN p[1] * (Limb \div Pow(10, w)) + (p[2] + 5 * Pow(10, w - 1)) \div Pow(10, w)
            ELSE (p[1] + 5 * Pow(10, w - 7)) \div Pow(10, w - 6)

-----------------------------------------------------------------------------
(* RecommendationService.generate *)

(* recentRuns: runs.filter(r => new Date(r.start_date_local) >= eightWeeksAgo) *)
RecentRuns == {r \in runs : r.t >= Now - 2 * RecentWindowDays}

RECURSIVE SortedSeq(_)
(* the elements of a set of integers, ascending *)
SortedSeq(S) ==
    IF S = {} THEN <<>>
    ELSE LET m == CHOOSE x \in S : \A y \in S : x <= y
         IN <<m>> \o SortedSeq(S \ {m})

(* faulty variant of GroupRunsByWeek: the current week has an entry even
   when it holds no run, so a week without runs counts as zero *)
GroupRunsByWeekWithEmpty(rs) ==
    LET key(r) == ISODate(GetWeekStartDate(LocalDay(r.t), 0))
        keys == SortedSeq({key(r) : r \in rs} \cup {ISODate(GetWeekStartDate(today, 0))})
        dist == [r \in rs |-> r.distance]
    IN [i \in 1..Len(keys) |->
          LET g == {r \in rs : key(r) = keys[i]}
          IN [weekStart |-> keys[i], distance |-> SumOver(g, dist), runs |-> Cardinality(g)]]

(* groupRunsByWeek: one entry per week key, ascending by key;
   distance is the sum of the runs' metres, runs their number *)
GroupRunsByWeek(rs) ==
    LET key(r) == ISODate(GetWeekStartDate(LocalDay(r.t), 0))
        keys == SortedSeq({key(r) : r \in rs})
        dist == [r \in rs |-> r.distance]
    IN [i \in 1..Len(keys) |->
          LET g == {r \in rs : key(r) = keys[i]}
          IN [weekStart |-> keys[i], distance |-> SumOver(g, dist), runs |-> Cardinality(g)]]

RECURSIVE SumField(_, _)
SumField(s, f) == IF s = <<>> THEN 0 ELSE Head(s)[f] + SumField(Tail(s), f)

(* Math.round(avgWeeklyDistance): the weekly sums are metres, the average is km *)
RoundedWeeklyAverage(weeklyData) ==
    IF Len(weeklyData) > 0
    THEN Round(SumField(weeklyData, "distance"), 1000 * Len(weeklyData))
    ELSE 0

(* dayCounts *)
DayCounts == [d \in 0..6 |-> Cardinality({r \in RecentRuns : GetDay(LocalDay(r.t)) = d})]

(* faulty variant of IsPreferred: a share of exactly 20% does not qualify *)
IsPreferredStrict(count, total) == 5 * count > total

(* d.count / totalRunsRecent >= 0.2 *)
IsPreferred(count, total) == 5 * count >= total

(* preferredDays, sorted *)
PreferredDays ==
    LET totalRunsRecent == OrElse(Cardinality(RecentRuns), 1)
    IN SortedSeq({d \in 0..6 : IsPreferred(DayCounts[d], totalRunsRecent)})

(* runDays, with Saturday pushed when parkrun is enabled *)
RunDays ==
    LET base == IF Len(PreferredDays) >= 2 THEN PreferredDays ELSE <<1, 3, 5, 0>>
    IN IF parkrunEnabled /\ Saturday \notin Range(base) THEN Append(base, Saturday) ELSE base

(* currentTarget *)
CurrentTarget(goalDistance, weeklyData) ==
    LET t == OrElse(goalDistance, RoundedWeeklyAverage(weeklyData))
    IN IF t < MinWeeklyTarget THEN MinWeeklyTarget ELSE t

(* faulty variant of WeekTarget: the goal does not cap the later weeks *)
WeekTargetNoCap(week, currentTarget, goalDistance) ==
    IF week = 0 THEN currentTarget ELSE RoundGrowth(currentTarget, week)

(* weekTarget *)
WeekTarget(week, currentTarget, goalDistance) ==
    IF week = 0 THEN currentTarget
    ELSE IF Falsy(goalDistance) THEN RoundGrowth(currentTarget, week)
         ELSE Min(goalDistance, RoundGrowth(currentTarget, week))

(* faulty variant of EffectiveTarget: the parkrun distance is not taken off *)
EffectiveTargetWhole(weekTarget) == weekTarget

(* effectiveTarget *)
EffectiveTarget(weekTarget) ==
    IF parkrunEnabled THEN Max(weekTarget - ParkrunDistance, 0) ELSE weekTarget

IsWeekend(d) == d = Sunday \/ d = Saturday

(* the comparator of availableDays.sort: weekdays first, then ascending *)
DayBefore(a, b) ==
    IF IsWeekend(a) /\ ~IsWeekend(b) THEN FALSE
    ELSE IF ~IsWeekend(a) /\ IsWeekend(b) THEN TRUE
    ELSE a < b

RECURSIVE SortAvailable(_)
SortAvailable(S) ==
    IF S = {} THEN <<>>
    ELSE LET m == CHOOSE x \in S : \A y \in S \ {x} : DayBefore(x, y)
         IN <<m>> \o SortAvailable(S \ {m})

(* Array.prototype.find on days: the first element with the property, or undefined *)
FirstOrUndefined(s) == IF Len(s) = 0 THEN Undefined ELSE s[1]

RECURSIVE FilterWeekend(_)
FilterWeekend(s) ==
    IF s = <<>> THEN <<>>
    ELSE IF IsWeekend(Head(s)) THEN <<Head(s)>> \o FilterWeekend(Tail(s))
         ELSE FilterWeekend(Tail(s))

(* longRunDay = availableDays.find(d => d === 0 || d === 6) || availableDays[0] *)
LongRunDay(availableDays) ==
    OrElse(FirstOrUndefined(FilterWeekend(availableDays)), FirstOrUndefined(availableDays))

(* minDiff of the tempo rule *)
MinDiff(d, longRunDay) ==
    LET daysDiff == Abs(d - longRunDay) IN Min(daysDiff, 7 - daysDiff)

RECURSIVE FilterApart(_, _)
FilterApart(s, longRunDay) ==
    IF s = <<>> THEN <<>>
    ELSE IF MinDiff(Head(s), longRunDay) >= 2
         THEN <<Head(s)>> \o FilterApart(Tail(s), longRunDay)
         ELSE FilterApart(Tail(s), longRunDay)

(* tempoDay = remainingDays.find(minDiff >= 2) || remainingDays[0] *)
TempoDay(remainingDays, longRunDay) ==
    OrElse(FirstOrUndefined(FilterApart(remainingDays, longRunDay)),
           FirstOrUndefined(remainingDays))

(* easyDays = otherDays.slice(0, Math.max(2, Math.round(effectiveTarget / 8))) *)
EasyDays(otherDays, effectiveTarget) ==
    SubSeq(otherDays, 1, Min(Len(otherDays), Max(2, Round(effectiveTarget, 8))))

(* the schedule array of one week *)
Schedule(effectiveRunDays, effectiveTarget) ==
    LET availableDays == SortAvailable(Range(effectiveRunDays))
        longRunDay == LongRunDay(availableDays)
        remainingDays == SelectSeq2(availableDays, {longRunDay})
        tempoDay == TempoDay(remainingDays, longRunDay)
        otherDays == SelectSeq2(remainingDays, {tempoDay})
        easyDays == EasyDays(otherDays, effectiveTarget)
    IN <<[day |-> longRunDay, type |-> "long"], [day |-> tempoDay, type |-> "tempo"]>>
       \o [i \in 1..Len(easyDays) |-> [day |-> easyDays[i], type |-> "easy"]]

(* estimateDuration: Math.round(distanceKM * pace), pace 6 (easy) or 5 (tempo) *)
EstimateDuration(distanceKM, type) == distanceKM * (IF type = "easy" THEN 6 ELSE 5)

(* the distance of an entry, by type *)
LongDistance(effectiveTarget) == Round(effectiveTarget, 4)
TempoDistance(effectiveTarget) == Round(3 * effectiveTarget, 20)
EasyDistance(effectiveTarget) == Min(Round(3 * effectiveTarget, 10), EasyRunCap)

(* one RecommendedRun of the schedule.forEach body; entry.day is a number here *)
MakeRun(entry, weekMonday, effectiveTarget) ==
    LET offset == (entry.day + 6) % 7
        distance == CASE entry.type = "long" -> LongDistance(effectiveTarget)
                      [] entry.type = "tempo" -> TempoDistance(effectiveTarget)
                      [] OTHER -> EasyDistance(effectiveTarget)
    IN [date |-> ISODate(weekMonday + offset),
        type |-> entry.type,
        distance |-> distance,
        duration |-> EstimateDuration(distance, IF entry.type = "tempo" THEN "tempo" ELSE "easy")]

(* weekRuns.sort((a, b) => a.date.localeCompare(b.date)): stable, by date *)
InsertByDate(s, e) ==
    LET k == Cardinality({i \in 1..Len(s) : s[i].date <= e.date})
    IN SubSeq(s, 1, k) \o <<e>> \o SubSeq(s, k + 1, Len(s))

RECURSIVE SortByDate(_)
SortByDate(s) ==
    IF s = <<>> THEN <<>>
    ELSE InsertByDate(SortByDate(SubSeq(s, 1, Len(s) - 1)), s[Len(s)])

(* the parkrun entry of a week: Monday + 5 days *)
ParkrunRun(weekMonday) ==
    [date |-> ISODate(weekMonday + 5), type |-> "parkrun",
     distance |-> ParkrunDistance, duration |-> ParkrunDistance * 6]

(* getWeekStartDate(new Date(), week) of the loop body *)
WeekMonday(week) == GetWeekStartDate(today, week)

(* One pass of the for loop.  threw: an entry of the schedule has day undefined,
   the offset is NaN, runDate is an Invalid Date and toISOString() throws
   RangeError. *)
PlanWeek(week, runDays, currentTarget, goalDistance) ==
    LET weekTarget == WeekTarget(week, currentTarget, goalDistance)
        weekMonday == WeekMonday(week)
        effectiveTarget == EffectiveTarget(weekTarget)
        effectiveRunDays == IF parkrunEnabled THEN SelectSeq2(runDays, {Saturday}) ELSE runDays
        schedule == IF Len(effectiveRunDays) > 0
                    THEN Schedule(effectiveRunDays, effectiveTarget) ELSE <<>>
        threw == \E i \in 1..Len(schedule) : schedule[i].day = Undefined
        made == [i \in 1..Len(schedule) |-> MakeRun(schedule[i], weekMonday, effectiveTarget)]
        weekRuns == IF parkrunEnabled THEN Append(made, ParkrunRun(weekMonday)) ELSE made
    IN [threw |-> threw,
        schedule |-> schedule,
        weekStart |-> ISODate(weekMonday),
        targetDistance |-> weekTarget,
        runs |-> IF threw THEN <<>> ELSE SortByDate(weekRuns)]

(* currentStats.weeklyAverage and currentStats.currentRunsPerWeek, in tenths:
   Math.round(avg * 10) / 10 of the means over the entries of weeklyData *)
WeeklyAverage(weeklyData) ==
    IF Len(weeklyData) > 0
    THEN Round(SumField(weeklyData, "distance"), 100 * Len(weeklyData))
    ELSE 0

CurrentRunsPerWeek(weeklyData) ==
    IF Len(weeklyData) > 0
    THEN Round(10 * SumField(weeklyData, "runs"), Len(weeklyData))
    ELSE 0

(* the array literal of the rationale, indexed from 0 in the source *)
RationaleNames == <<"Mon", "Tue", "Wed", "Thu", "Fri", "Sat", "Sun">>

(* the rationale: the names runDays.map(d => [..][d]) joins, and whether the
   parkrun sentence is appended *)
Rationale(runDays) ==
    [days |-> [i \in 1..Len(runDays) |-> RationaleNames[runDays[i] + 1]],
     parkrun |-> parkrunEnabled]

NoBody ==
    [recommendations |-> <<>>, runDays |-> <<>>, weeklyData |-> <<>>,
     weeklyAverage |-> 0, currentRunsPerWeek |-> 0,
     rationale |-> [days |-> <<>>, parkrun |-> FALSE]]

(* generate(weeksAhead, goalDistance): threw, or the response (with the locals
   runDays, weeklyData and each week's schedule) *)
Generate(weeksAhead, goalDistance) ==
    LET weeklyData == GroupRunsByWeek(RecentRuns)
        runDays == RunDays
        currentTarget == CurrentTarget(goalDistance, weeklyData)
        weeks == [i \in 1..weeksAhead |-> PlanWeek(i - 1, runDays, currentTarget, goalDistance)]
        threw == \E i \in 1..weeksAhead : weeks[i].threw
    IN [threw |-> threw,
        body |-> [recommendations |-> IF threw THEN <<>> ELSE weeks,
                  runDays |-> runDays,
                  weeklyData |-> weeklyData,
                  weeklyAverage |-> WeeklyAverage(weeklyData),
                  currentRunsPerWeek |-> CurrentRunsPerWeek(weeklyData),
                  rationale |-> Rationale(runDays)]]

-----------------------------------------------------------------------------
(* DatabaseService.getConsistencyStats.  start_date and start_date_local of a
   run denote the same instant t; DATE(start_date) is its UTC date and
   setHours(0, 0, 0, 0) the midnight of its local date.  Timestamps of
   midnights are counted in days (86400000 ms). *)

(* DATE(start_date): the UTC date of instant t; east of UTC the first half of a
   local day still belongs to the previous UTC date *)
UtcDay(t) == IF tzEast /\ t % 2 = 0 THEN LocalDay(t) - 1 ELSE LocalDay(t)

(* date('now', '-N days') *)
PeriodStart(days) == UtcDay(Now) - days

RunsInPeriod(days) == {r \in runs : UtcDay(r.t) >= PeriodStart(days)}
ParkrunsInPeriod(days) == {d \in parkrunResults : d >= PeriodStart(days)}

(* activityDatesSet *)
ActivityDatesSet(days) ==
    {UtcDay(r.t) : r \in RunsInPeriod(days)}
        \cup (IF parkrunEnabled THEN ParkrunsInPeriod(days) ELSE {})

RECURSIVE CountBack(_, _)
(* the while loop: count while check is in the set, stepping one day back *)
CountBack(dates, check) ==
    IF check \in dates THEN 1 + CountBack(dates, check - 1) ELSE 0

(* currentStreak *)
CurrentStreak(days) ==
    LET activeDates == SortedSeq(ActivityDatesSet(days))
    IN IF Len(activeDates) > 0
       THEN CountBack(ActivityDatesSet(days), activeDates[Len(activeDates)])
       ELSE 0

(* allTimeDatesSet, sorted *)
AllTimeSorted ==
    SortedSeq({LocalDay(r.t) : r \in runs}
                 \cup (IF parkrunEnabled THEN parkrunResults ELSE {}))

RECURSIVE LongestFrom(_, _, _, _)
(* the for loop over allTimeSorted from index i, with tempStreak and longestStreak *)
LongestFrom(sorted, i, tempStreak, longestStreak) ==
    IF i > Len(sorted) THEN Max(longestStreak, tempStreak)
    ELSE IF sorted[i] - sorted[i - 1] = 1
         THEN LongestFrom(sorted, i + 1, tempStreak + 1, longestStreak)
         ELSE LongestFrom(sorted, i + 1, 1, Max(longestStreak, tempStreak))

(* longestStreak *)
LongestStreak ==
    IF Len(AllTimeSorted) > 0 THEN LongestFrom(AllTimeSorted, 2, 1, 0) ELSE 0

(* daysSinceLast: now is the middle of local day today *)
DaysSinceLast(days) ==
    IF Len(AllTimeSorted) = 0 THEN days
    ELSE today - AllTimeSorted[Len(AllTimeSorted)]

(* runs_in_period *)
RunsInPeriodCount(days) ==
    Cardinality(RunsInPeriod(days))
        + (IF parkrunEnabled THEN Cardinality(ParkrunsInPeriod(days)) ELSE 0)

(* the identifiers bound where the return statement is evaluated *)
ReturnScope ==
    {"days", "now", "periodCondition", "runs_in_period", "activityDatesSet",
     "activeDates", "currentStreak", "allTimeDatesSet", "allTimeSorted",
     "longestStreak", "lastActivity", "daysSinceLast", "weeks", "avgRunsPerWeek",
     "roundedAvg"}

(* the identifiers the returned object literal reads: the shorthand properties
   runs_in_period, current_streak and longest_streak read the variables of
   those names *)
ReturnReads ==
    {"days", "runs_in_period", "current_streak", "longest_streak", "roundedAvg",
     "daysSinceLast"}

NoStats ==
    [called |-> FALSE, threw |-> FALSE, period_days |-> 0, runs_in_period |-> 0,
     current_streak |-> 0, longest_streak |-> 0, avg_runs_per_week |-> 0,
     days_since_last_run |-> 0,
     locals |-> [currentStreak |-> 0, longestStreak |-> 0]]

(* getConsistencyStats(days): reading an identifier that is not bound throws
   ReferenceError, so no object is returned; avg_runs_per_week is in tenths *)
GetConsistencyStats(days) ==
    LET locals == [currentStreak |-> CurrentStreak(days), longestStreak |-> LongestStreak]
    IN IF ReturnReads \subseteq ReturnScope
       THEN [called |-> TRUE, threw |-> FALSE,
             period_days |-> days,
             runs_in_period |-> RunsInPeriodCount(days),
             current_streak |-> locals.currentStreak,
             longest_streak |-> locals.longestStreak,
             avg_runs_per_week |-> Round(RunsInPeriodCount(days) * 70, days),
             days_since_last_run |-> DaysSinceLast(days),
             locals |-> locals]
       ELSE [NoStats EXCEPT !.called = TRUE, !.threw = TRUE, !.locals = locals]

(* GET /api/stats/consistency?days=.. *)
GetConsistency(days) ==
    /\ stats' = GetConsistencyStats(days)
    /\ UNCHANGED <<syncMetadata, strava, polls, scrape, runs, parkrunResults, parkrunEnabled, tzEast, today, req, res, analytics>>

-----------------------------------------------------------------------------
(* StatsService (summary, pace progress, location clusters, personal records,
   5k prediction) and the aggregate queries of DatabaseService behind it.
   A number that may be fractional is kept as a ratio n / d; a ratio with
   d = 0 is SQL NULL or JavaScript NaN.  A whole number that may be NaN is
   Undefined when it is.  Coordinates are counted in 1/100000 degree. *)

(* The rows of table runs that may be stored.  Every row with a positive
   distance has a whole pace moving_time * 1000 / distance, no two rows start
   at the same instant, and no coordinate lies halfway between two roundings. *)
RunRows ==
    { [id |-> 1, t |-> 1398, distance |-> 6000, moving_time |-> 1800,     \* Sat 4 Jan
       total_elevation_gain |-> 50, latitude_start |-> 5150012,
       longitude_start |-> -12342],
      [id |-> 2, t |-> 1395, distance |-> 5000, moving_time |-> 1440,     \* Thu 2 Jan
       total_elevation_gain |-> 100, latitude_start |-> 5150008,
       longitude_start |-> -12338],
      [id |-> 3, t |-> 1391, distance |-> 10000, moving_time |-> 3000,    \* Tue 31 Dec
       total_elevation_gain |-> Undefined, latitude_start |-> 5150012,
       longitude_start |-> -12346],
      [id |-> 4, t |-> 1388, distance |-> 0, moving_time |-> 600,         \* Mon 30 Dec
       total_elevation_gain |-> 0, latitude_start |-> Undefined,
       longitude_start |-> Undefined],
      [id |-> 5, t |-> 1387, distance |-> 5000, moving_time |-> 0,        \* Sun 29 Dec
       total_elevation_gain |-> 100, latitude_start |-> 5150016,
       longitude_start |-> Undefined],
      [id |-> 6, t |-> 1289, distance |-> 10000, moving_time |-> 2900,    \* Sun 10 Nov
       total_elevation_gain |-> 30, latitude_start |-> 4870003,
       longitude_start |-> 230004],
      [id |-> 7, t |-> 1341, distance |-> 4000, moving_time |-> 1400,     \* Fri 6 Dec
       total_elevation_gain |-> 20, latitude_start |-> Undefined,
       longitude_start |-> Undefined],
      [id |-> 8, t |-> 1377, distance |-> 10000, moving_time |-> 3100,    \* Tue 24 Dec
       total_elevation_gain |-> 100, latitude_start |-> 4870003,
       longitude_start |-> 230004] }

(* the days parameter of GET /api/stats/summary *)
SummaryDaysSet == {Undefined, 7, 30}

(* the period parameter of GET /api/stats/progress *)
PeriodSet == {"weekly", "monthly"}

(* The calendar: day NewYear is 1 January, a Wednesday; the year before it has
   DaysOfLastYear days; MonthStarts are the first days of October .. February *)
NewYear == 696
DaysOfLastYear == 366
MonthStarts == <<604, 635, 665, 696, 727>>

(* strftime('%Y', ..), counted from the year before NewYear *)
YearOf(d) == IF d >= NewYear THEN 1 ELSE 0

(* strftime('%j', ..) - 1 *)
DayOfYear(d) == IF d >= NewYear THEN d - NewYear ELSE d - (NewYear - DaysOfLastYear)

(* strftime('%W', ..): week of the year, the first Monday opening week 1 *)
WeekOfYear(d) == (DayOfYear(d) + 7 - ((GetDay(d) + 6) % 7)) \div 7

(* strftime('%m', ..), as the number of month starts up to d *)
MonthOf(d) == Cardinality({i \in 1..Len(MonthStarts) : MonthStarts[i] <= d})

(* ratios *)
Ratio(n, d) == [n |-> n, d |-> d]
Zero == Ratio(0, 1)
NoNumber == Ratio(0, 0)

(* x || 0 for a ratio *)
RatioOrZero(x) == IF x.d = 0 \/ x.n = 0 THEN Zero ELSE x

(* a + b and a > b in JavaScript, NaN being Undefined *)
Plus(a, b) == IF a = Undefined \/ b = Undefined THEN Undefined ELSE a + b
Gt(a, b) == a # Undefined /\ b # Undefined /\ a > b

(* (moving_time * 1000) / distance of a row with distance > 0 *)
PaceOf(r) == (r.moving_time * 1000) \div r.distance

(* SUM(column) || 0 and AVG(f) over rows *)
SumColumn(rows, column) == SumOver(rows, [r \in rows |-> r[column]])
Avg(rows, f) ==
    IF rows = {} THEN NoNumber ELSE Ratio(SumOver(rows, f), Cardinality(rows))

(* MAX(distance) || 0 *)
MaxDistance(rows) ==
    IF rows = {} THEN 0
    ELSE LET m == CHOOSE r \in rows : \A x \in rows : x.distance <= r.distance
         IN m.distance

RECURSIVE RunsByStartDesc(_)
(* ORDER BY start_date DESC *)
RunsByStartDesc(rows) ==
    IF rows = {} THEN <<>>
    ELSE LET first == CHOOSE r \in rows : \A x \in rows : x.t <= r.t
         IN <<first>> \o RunsByStartDesc(rows \ {first})

(* faulty variant of GetRuns: the LIMIT is not applied *)
GetAllRuns(limit) == RunsByStartDesc(runs)

(* getRuns({ limit }): all runs, latest first, LIMIT limit *)
GetRuns(limit) ==
    LET all == RunsByStartDesc(runs)
    IN IF Falsy(limit) THEN all ELSE SubSeq(all, 1, Min(limit, Len(all)))

-----------------------------------------------------------------------------
(* getRunStats and getSummary *)

WeekdayNames ==
    <<"Sunday", "Monday", "Tuesday", "Wednesday", "Thursday", "Friday", "Saturday">>

(* the rows selected by dateCondition: start_date ('..T..Z') is compared as a
   string with datetime('now', '-N days') ('.. ..'), that is by UTC date *)
RunStatsRows(days) == IF Falsy(days) THEN runs ELSE RunsInPeriod(days)

(* the rows the weekday query may return first: GROUP BY weekday ORDER BY count
   DESC LIMIT 1 leaves the choice among the most frequent weekdays open *)
MostFrequentDays(days) ==
    LET rows == RunStatsRows(days)
        count(d) == Cardinality({r \in rows : GetDay(LocalDay(r.t)) = d})
    IN IF rows = {} THEN {"N/A"}
       ELSE {WeekdayNames[d + 1] : d \in {e \in 0..6 : \A f \in 0..6 : count(f) <= count(e)}}

(* getRunStats(days), mostFrequentDay being the weekday the second query returned *)
GetRunStats(days, mostFrequentDay) ==
    LET rows == RunStatsRows(days)
        paced == {r \in rows : r.distance > 0 /\ r.moving_time > 0}
    IN [total_runs |-> Cardinality(rows),
        total_distance |-> SumColumn(rows, "distance"),
        total_time |-> SumColumn(rows, "moving_time"),
        average_distance |-> RatioOrZero(Avg(rows, [r \in rows |-> r.distance])),
        average_pace_seconds |-> RatioOrZero(Avg(paced, [r \in paced |-> PaceOf(r)])),
        longest_run |-> MaxDistance(rows),
        most_frequent_day |-> mostFrequentDay]

(* the columns of table parkrun_results, which are the fields of a row *)
ParkrunColumns ==
    {"id", "parkrun_date", "event_number", "runner_name", "position",
     "total_runners", "finish_time", "age_category", "age_grading", "gender",
     "gender_position", "club", "note", "created_at"}

(* pr.distance: a field the row does not have reads as undefined *)
PrDistance(pr) ==
    IF "distance" \in ParkrunColumns THEN ParkrunDistance * 1000 ELSE Undefined

(* pr.finish_time.split(':').map(Number) of the stored results *)
FinishTimeParts(pr) == IF pr % 2 = 1 THEN <<0, 25, 10>> ELSE <<24, 30>>

(* parseTimeToSeconds *)
ParseTimeToSeconds(parts) ==
    IF Len(parts) = 3 THEN parts[1] * 3600 + parts[2] * 60 + parts[3]
    ELSE IF Len(parts) = 2 THEN parts[1] * 60 + parts[2]
    ELSE 0

(* getParkrunResults({ startDate, endDate }): parkrun_date is stored as
   toISOString() ('..T00:00:00.000Z'), so it is >= the date string of its own
   day but not <= it *)
SummaryParkruns(days) ==
    IF Falsy(days) THEN parkrunResults
    ELSE {pr \in parkrunResults : pr >= UtcDay(Now - 2 * days) /\ pr < UtcDay(Now)}

RECURSIVE FoldParkruns(_, _)
(* the for loop over parkrunResults: acc holds prDistance, prTime and maxDist *)
FoldParkruns(prs, acc) ==
    IF prs = {} THEN acc
    ELSE LET pr == CHOOSE x \in prs : \A y \in prs : y <= x
         IN FoldParkruns(prs \ {pr},
                [prDistance |-> Plus(acc.prDistance, PrDistance(pr)),
                 prTime |-> acc.prTime + ParseTimeToSeconds(FinishTimeParts(pr)),
                 maxDist |-> IF Gt(PrDistance(pr), acc.maxDist)
                             THEN PrDistance(pr) ELSE acc.maxDist])

(* StatsService.getSummary(days) *)
GetSummary(days, mostFrequentDay) ==
    LET runStats == GetRunStats(days, mostFrequentDay)
        prs == SummaryParkruns(days)
        folded == FoldParkruns(prs, [prDistance |-> 0, prTime |-> 0, maxDist |-> 0])
        total_runs == runStats.total_runs + Cardinality(prs)
        total_distance == Plus(runStats.total_distance, folded.prDistance)
        total_time == runStats.total_time + folded.prTime
    IN IF parkrunEnabled /\ prs # {}
       THEN [total_runs |-> total_runs,
             total_distance |-> total_distance,
             total_time |-> total_time,
             average_distance |->
                IF total_runs > 0
                THEN (IF total_distance = Undefined THEN NoNumber
                      ELSE Ratio(total_distance, total_runs))
                ELSE runStats.average_distance,
             average_pace_seconds |->
                IF Gt(total_distance, 0) /\ total_time > 0
                THEN Ratio(Round(total_time * 1000, total_distance), 1)
                ELSE Zero,
             longest_run |-> IF Gt(folded.maxDist, runStats.longest_run)
                             THEN folded.maxDist ELSE runStats.longest_run,
             most_frequent_day |-> mostFrequentDay]
       ELSE runStats

(* no request answered yet: a behaviour is one request on one snapshot, the
   routes keeping nothing from one request to the next *)
NoAnalytics == [op |-> "none"]

(* GET /api/stats/summary?days=.. *)
Summary(days) ==
    /\ analytics = NoAnalytics
    /\ \E day \in MostFrequentDays(days) :
          analytics' = [op |-> "summary", days |-> days, value |-> GetSummary(days, day)]
    /\ UNCHANGED <<syncMetadata, strava, polls, scrape, runs, parkrunResults, parkrunEnabled, tzEast, today, req, res, stats>>

-----------------------------------------------------------------------------
(* getPaceProgress *)

(* strftime(dateFormat, start_date): the bucket of a run, by its UTC date *)
PeriodKey(period, r) ==
    LET d == UtcDay(r.t)
    IN IF period = "weekly" THEN <<YearOf(d), WeekOfYear(d)>>
       ELSE <<YearOf(d), MonthOf(d)>>

(* one row of the GROUP BY period, mapped as the method maps it:
   period_start is MIN(start_date), avg_pace_seconds is
   Math.round(AVG(CASE WHEN distance > 0 ..)) || 0 *)
PaceRow(period, key) ==
    LET rows == {r \in runs : PeriodKey(period, r) = key}
        paced == {r \in rows : r.distance > 0}
        avg == Avg(paced, [r \in paced |-> PaceOf(r)])
        first == CHOOSE r \in rows : \A x \in rows : r.t <= x.t
    IN [period |-> key,
        period_start |-> first.t,
        run_count |-> Cardinality(rows),
        avg_pace_seconds |-> IF avg.d = 0 THEN 0 ELSE Round(avg.n, avg.d)]

RECURSIVE OrderByPeriodStart(_)
(* ORDER BY period_start ASC *)
OrderByPeriodStart(rows) ==
    IF rows = {} THEN <<>>
    ELSE LET first == CHOOSE r \in rows : \A x \in rows : r.period_start <= x.period_start
         IN <<first>> \o OrderByPeriodStart(rows \ {first})

(* getPaceProgress(period) *)
GetPaceProgress(period) ==
    OrderByPeriodStart({PaceRow(period, key) : key \in {PeriodKey(period, r) : r \in runs}})

-----------------------------------------------------------------------------
(* getLocationClusters *)

(* ROUND(x, 4) of a coordinate in 1/100000 degree, in 1/10000 degree *)
Round4(x) == IF x >= 0 THEN (x + 5) \div 10 ELSE -((5 - x) \div 10)

(* WHERE latitude_start IS NOT NULL AND longitude_start IS NOT NULL *)
Located ==
    {r \in runs : r.latitude_start # Undefined /\ r.longitude_start # Undefined}

(* faulty variant of ClusterKey: groups by the rounded latitude alone *)
ClusterKeyLatitudeOnly(r) == <<Round4(r.latitude_start), 0>>

(* GROUP BY lat_round, lon_round *)
ClusterKey(r) == <<Round4(r.latitude_start), Round4(r.longitude_start)>>

ClusterRow(key) ==
    LET rows == {r \in Located : ClusterKey(r) = key}
    IN [lat |-> key[1],
        lon |-> key[2],
        run_count |-> Cardinality(rows),
        total_distance |-> SumColumn(rows, "distance"),
        avg_distance |-> Avg(rows, [r \in rows |-> r.distance])]

ClusterRows == {ClusterRow(key) : key \in {ClusterKey(r) : r \in Located}}

(* ORDER BY run_count DESC: every order of the rows with non-increasing
   run_count, the order of rows with equal run_count being left open *)
ClusterOrders ==
    LET n == Cardinality(ClusterRows)
    IN {s \in [1..n -> ClusterRows] :
          /\ \A i, j \in 1..n : i # j => s[i] # s[j]
          /\ \A i \in 1..(n - 1) : s[i].run_count >= s[i + 1].run_count}

-----------------------------------------------------------------------------
(* predict5KTime *)

PredictLimit == 20
PredictMinDistance == 4000
HighConfidence == 10
MediumConfidence == 5

RECURSIVE SumSeq(_)
SumSeq(s) == IF s = <<>> THEN 0 ELSE Head(s) + SumSeq(Tail(s))

(* predict5KTime(): absent, or the prediction with the paces it averaged *)
Predict5KTime ==
    LET far(r) == r.distance >= PredictMinDistance
        recentFarRuns == SelectSeq(GetRuns(PredictLimit), far)
        positive(p) == p > 0
        paces == SelectSeq([i \in 1..Len(recentFarRuns) |-> PaceOf(recentFarRuns[i])],
                           positive)
    IN IF Len(recentFarRuns) = 0 \/ Len(paces) = 0
       THEN [present |-> FALSE]
       ELSE [present |-> TRUE,
             predicted_seconds |-> Round(SumSeq(paces) * 5, Len(paces)),
             confidence |-> IF Len(paces) >= HighConfidence THEN "high"
                            ELSE IF Len(paces) >= MediumConfidence THEN "medium"
                            ELSE "low",
             paces |-> paces]

-----------------------------------------------------------------------------
(* getPersonalRecords.  The accumulator of a reduce is <<>> for null and
   <<object>> otherwise. *)

RecordsLimit == 1000
FiveK == 5000
TenK == 10000
Infinity == 1000000000

(* object.name: undefined when the object has no such property *)
Field(object, name) == IF name \in DOMAIN object THEN object[name] ELSE Undefined

(* acc?.name *)
OptField(acc, name) == IF acc = <<>> THEN Undefined ELSE Field(acc[1], name)

RECURSIVE ReduceLongest(_, _)
(* run.distance > (max?.distance || 0) ? run : max *)
ReduceLongest(s, max) ==
    IF s = <<>> THEN max
    ELSE ReduceLongest(Tail(s),
            IF Head(s).distance > OrElse(OptField(max, "distance"), 0)
            THEN <<Head(s)>> ELSE max)

RECURSIVE ReduceFastest(_, _)
(* pace < (best?.pace || Infinity) ? { ...run, pace } : best *)
ReduceFastest(s, best) ==
    IF s = <<>> THEN best
    ELSE LET run == Head(s)
             pace == PaceOf(run)
         IN ReduceFastest(Tail(s),
               IF pace < OrElse(OptField(best, "pace"), Infinity)
               THEN <<[f \in DOMAIN run \cup {"pace"} |->
                          IF f = "pace" THEN pace ELSE run[f]]>>
               ELSE best)

RECURSIVE ReduceElevation(_, _)
(* (run.total_elevation_gain || 0) > (max?.elevation || 0) ? run : max *)
ReduceElevation(s, max) ==
    IF s = <<>> THEN max
    ELSE ReduceElevation(Tail(s),
            IF OrElse(Head(s).total_elevation_gain, 0) > OrElse(OptField(max, "elevation"), 0)
            THEN <<Head(s)>> ELSE max)

(* formatPace(n / d): minutes and seconds of 'M:SS' *)
FormatPace(n, d) ==
    LET minutes == n \div (60 * d)
    IN [minutes |-> minutes, secs |-> Round(n - minutes * 60 * d, d)]

(* fastest_5k / fastest_10k for the given distance in metres:
   formatPace((moving_time * 1000) / metres * (metres / 1000)) *)
Fastest(s, metres) ==
    LET qualifies(r) == r.distance >= metres /\ PaceOf(r) > 0
        best == ReduceFastest(SelectSeq(s, qualifies), <<>>)
    IN IF best = <<>> THEN <<>>
       ELSE <<[time |-> FormatPace(best[1].moving_time * 1000 * (metres \div 1000), metres),
               date |-> best[1].t]>>

(* getPersonalRecords(): every record is <<>> (null) or <<record>>;
   longest_distance.distance is in metres *)
GetPersonalRecords ==
    LET s == GetRuns(RecordsLimit)
        longest == ReduceLongest(s, <<>>)
        mostElevation == ReduceElevation(s, <<>>)
    IN [longest_distance |->
            IF longest = <<>> THEN <<>>
            ELSE <<[distance |-> longest[1].distance, date |-> longest[1].t]>>,
        fastest_5k |-> Fastest(s, FiveK),
        fastest_10k |-> Fastest(s, TenK),
        most_elevation |->
            IF mostElevation = <<>> THEN <<>>
            ELSE <<[elevation |-> OrElse(mostElevation[1].total_elevation_gain, 0),
                    date |-> mostElevation[1].t]>>]

(* getWeeklyDistance(weeks): the weeks start on Sunday; one entry per week of
   the last `weeks` ones, the oldest first, labelled by the day its week
   starts, with the distance in tenths of a km *)
GetWeeklyDistance(weeks) ==
    LET currentWeekStart == today - GetDay(today)
        runWeekStart(r) == LocalDay(r.t) - GetDay(LocalDay(r.t))
        dist == [r \in runs |-> r.distance]
    IN [i \in 1..weeks |->
          LET weekKey == currentWeekStart - 7 * (weeks - i)
          IN [week |-> weekKey,
              distance |-> Round(SumOver({r \in runs : runWeekStart(r) = weekKey}, dist),
                                 100)]]

-----------------------------------------------------------------------------
(* The routes of /api/stats *)

(* faulty variant of WeeklyDistance: the call stamps the sync time *)
WeeklyDistanceStamped(weeks) ==
    /\ analytics = NoAnalytics
    /\ analytics' = [op |-> "weekly-distance", weeks |-> weeks,
                     value |-> GetWeeklyDistance(weeks)]
    /\ syncMetadata' = Now
    /\ UNCHANGED <<strava, polls, scrape, runs, parkrunResults, parkrunEnabled,
                   tzEast, today, req, res, stats>>

(* GET /api/stats/weekly-distance?weeks=.. *)
WeeklyDistance(weeks) ==
    /\ analytics = NoAnalytics
    /\ analytics' = [op |-> "weekly-distance", weeks |-> weeks,
                     value |-> GetWeeklyDistance(weeks)]
    /\ UNCHANGED <<syncMetadata, strava, polls, scrape, runs, parkrunResults, parkrunEnabled,
                   tzEast, today, req, res, stats>>

(* GET /api/stats/progress?period=.. *)
Progress(period) ==
    /\ analytics = NoAnalytics
    /\ analytics' = [op |-> "progress", period |-> period, value |-> GetPaceProgress(period)]
    /\ UNCHANGED <<syncMetadata, strava, polls, scrape, runs, parkrunResults, parkrunEnabled, tzEast, today, req, res, stats>>

(* GET /api/stats/by-location *)
ByLocation ==
    /\ analytics = NoAnalytics
    /\ \E order \in ClusterOrders :
          analytics' = [op |-> "by-location", value |-> order]
    /\ UNCHANGED <<syncMetadata, strava, polls, scrape, runs, parkrunResults, parkrunEnabled, tzEast, today, req, res, stats>>

(* GET /api/stats/personal-records *)
PersonalRecords ==
    /\ analytics = NoAnalytics
    /\ analytics' = [op |-> "personal-records", value |-> GetPersonalRecords]
    /\ UNCHANGED <<syncMetadata, strava, polls, scrape, runs, parkrunResults, parkrunEnabled, tzEast, today, req, res, stats>>

(* GET /api/stats/predict-5k *)
Predict5k ==
    /\ analytics = NoAnalytics
    /\ analytics' = [op |-> "predict-5k", value |-> Predict5KTime]
    /\ UNCHANGED <<syncMetadata, strava, polls, scrape, runs, parkrunResults, parkrunEnabled, tzEast, today, req, res, stats>>

(* GET /api/stats/consistency?days=.., as one of the requests on a snapshot *)
Consistency(days) ==
    /\ analytics = NoAnalytics
    /\ analytics' = [op |-> "consistency", days |-> days]
    /\ stats' = GetConsistencyStats(days)
    /\ UNCHANGED <<syncMetadata, strava, polls, scrape, runs, parkrunResults, parkrunEnabled, tzEast, today, req, res>>

-----------------------------------------------------------------------------
(* StravaService.pollActivities.  A call runs on the event loop of the one
   server process: it is suspended only where the source awaits (the token
   refresh, the activities request) and runs to completion between two awaits,
   the synchronous statements of better-sqlite3 included.  The calls of the
   scheduler, of the initial sync and of POST /api/strava/sync overlap at
   those points.  In a store that polls write, a row of table runs carries
   its strava_id as well. *)

(* the callers of pollActivities: the cron job (and the initial sync, a timer
   of the same process) and POST /api/strava/sync *)
PollIds == {"scheduled", "manual"}

(* what GET /athlete/activities may list: [id, type, t (start_date), distance,
   moving_time, total_elevation_gain, start_latlng]; the second run comes with
   its id, type and start only *)
ActivityUniverse ==
    { [id |-> 11, type |-> "Run", t |-> 1396, distance |-> 5000, moving_time |-> 1500,
       total_elevation_gain |-> 50, start_latlng |-> <<5150012, -12342>>],
      [id |-> 12, type |-> "Run", t |-> 1399, distance |-> Undefined,
       moving_time |-> Undefined, total_elevation_gain |-> Undefined,
       start_latlng |-> <<>>],
      [id |-> 13, type |-> "Ride", t |-> 1397, distance |-> 30000, moving_time |-> 3600,
       total_elevation_gain |-> 200, start_latlng |-> <<5150012, -12342>>] }

RECURSIVE ListsOf(_, _)
(* the lists over S of length at most n *)
ListsOf(S, n) ==
    IF n = 0 THEN {<<>>}
    ELSE LET shorter == ListsOf(S, n - 1)
         IN shorter \cup {Append(l, a) : l \in {x \in shorter : Len(x) = n - 1}, a \in S}

(* the outcomes of the activities request: it is rejected, or it resolves with
   a list in which an activity may appear again, within one list as well *)
ResponseSet ==
    {[ok |-> FALSE, data |-> <<>>]}
        \cup {[ok |-> TRUE, data |-> l] : l \in ListsOf(ActivityUniverse, MaxListed)}

(* the row of activity 11, imported by an earlier poll *)
ImportedBefore ==
    [id |-> 1, strava_id |-> 11, t |-> 1396, distance |-> 5000, moving_time |-> 1500,
     total_elevation_gain |-> 50, latitude_start |-> 5150012,
     longitude_start |-> -12342]

(* an earlier value of last_strava_sync *)
SyncedBefore == 1395

(* AUTOINCREMENT: the next id of table runs (no row of the model is deleted) *)
NextRowId(rs) ==
    IF rs = {} THEN 1
    ELSE 1 + (CHOOSE m \in {r.id : r \in rs} : \A r \in rs : r.id <= m)

(* getRunByStravaId: the rows with that strava_id (truthy when there is one) *)
GetRunByStravaId(rs, stravaId) == {r \in rs : r.strava_id = stravaId}

(* insertRun: a plain INSERT, which the UNIQUE constraint on strava_id rejects
   (SqliteError) when a row holds the same strava_id *)
InsertRun(rs, run) ==
    IF \E r \in rs : r.strava_id = run.strava_id
    THEN [threw |-> TRUE, runs |-> rs]
    ELSE [threw |-> FALSE,
          runs |-> rs \cup {[id |-> NextRowId(rs), strava_id |-> run.strava_id,
                             t |-> run.t, distance |-> run.distance,
                             moving_time |-> run.moving_time,
                             total_elevation_gain |-> run.total_elevation_gain,
                             latitude_start |-> run.latitude_start,
                             longitude_start |-> run.longitude_start]}]

(* the run data prepared from an activity: x || 0, x || null, and
   start_latlng?.[i] || null *)
RunOf(activity) ==
    LET at(i) == IF i <= Len(activity.start_latlng) THEN activity.start_latlng[i]
                 ELSE Undefined
    IN [strava_id |-> activity.id, t |-> activity.t,
        distance |-> OrElse(activity.distance, 0),
        moving_time |-> OrElse(activity.moving_time, 0),
        total_elevation_gain |-> OrElse(activity.total_elevation_gain, Undefined),
        latitude_start |-> OrElse(at(1), Undefined),
        longitude_start |-> OrElse(at(2), Undefined)]

(* faulty variant of ImportActivity: no look-up of the strava_id, and the
   activity is counted before the insert *)
ImportActivityUnchecked(activity, st) ==
    IF activity.type # "Run" THEN st
    ELSE LET ins == InsertRun(st.runs, RunOf(activity))
         IN [runs |-> ins.runs, added |-> st.added + 1,
             errors |-> IF ins.threw THEN Append(st.errors, "Activity") ELSE st.errors]

(* one pass of the loop over the activities, on st = [runs, added, errors] *)
ImportActivity(activity, st) ==
    IF activity.type # "Run" THEN st
    ELSE IF GetRunByStravaId(st.runs, activity.id) # {} THEN st
    ELSE LET ins == InsertRun(st.runs, RunOf(activity))
         IN IF ins.threw
            THEN [st EXCEPT !.errors = Append(@, "Activity")]
            ELSE [runs |-> ins.runs, added |-> st.added + 1, errors |-> st.errors]

RECURSIVE ImportAll(_, _)
(* the loop *)
ImportAll(activities, st) ==
    IF activities = <<>> THEN st
    ELSE ImportAll(Tail(activities), ImportActivity(Head(activities), st))

(* a call: its position, the locals after (lastSync) and activities, the
   result, and whether the activities request resolved *)
NoPoll ==
    [pc |-> "idle", after |-> Undefined, activities |-> <<>>, found |-> 0, added |-> 0,
     errors |-> <<>>, fetched |-> FALSE]

(* the outer catch: the result of a call that threw before the list was there *)
PollFailed(poll) ==
    [pc |-> "done", after |-> poll.after, activities |-> <<>>, found |-> 0, added |-> 0,
     errors |-> <<"Poll failed">>, fetched |-> FALSE]

(* getSyncMetadata('last_strava_sync') is read and the request is sent *)
PollFetching(poll) == [poll EXCEPT !.pc = "fetching", !.after = syncMetadata]

(* ensureValidToken up to its await: it throws without a refresh token, it
   refreshes when less than an hour remains (for instants in half days: when
   no half day remains), else the access token is valid *)
EnsureValidToken ==
    IF ~strava.refresh_token THEN "throws"
    ELSE LET expiresIn == IF Falsy(strava.token_expires_at) THEN 0
                          ELSE strava.token_expires_at - Now
         IN IF expiresIn < 1 THEN "refresh" ELSE "valid"

(* pollActivities is called *)
PollStart(p) ==
    /\ polls[p].pc = "idle"
    /\ polls' = [polls EXCEPT ![p] =
          CASE EnsureValidToken = "throws" -> PollFailed(NoPoll)
            [] EnsureValidToken = "refresh" -> [NoPoll EXCEPT !.pc = "refreshing"]
            [] OTHER -> PollFetching(NoPoll)]
    /\ UNCHANGED <<syncMetadata, strava, scrape, runs, parkrunResults, parkrunEnabled,
                   tzEast, today, req, res, stats, analytics>>

(* the token request settles: rejected; or resolved with tokens that expire
   six hours later (within the next half day), and saveTokens sets the tokens
   of the config and writes the file, which may throw after the tokens are set *)
PollRefreshed(p) ==
    /\ polls[p].pc = "refreshing"
    /\ \/ /\ polls' = [polls EXCEPT ![p] = PollFailed(@)]
          /\ UNCHANGED strava
       \/ \E written \in BOOLEAN :
             /\ strava' = [refresh_token |-> TRUE, token_expires_at |-> Now + 1]
             /\ polls' = [polls EXCEPT ![p] =
                   IF written THEN PollFetching(@) ELSE PollFailed(@)]
    /\ UNCHANGED <<syncMetadata, scrape, runs, parkrunResults, parkrunEnabled,
                   tzEast, today, req, res, stats, analytics>>

(* faulty variant of Receive: the sync time is written when the request was
   rejected as well *)
ReceiveAlwaysStamped(p, response) ==
    LET done == ImportAll(response.data, [runs |-> runs, added |-> 0, errors |-> <<>>])
    IN /\ polls[p].pc = "fetching"
       /\ runs' = done.runs
       /\ syncMetadata' = Now
       /\ polls' = [polls EXCEPT ![p] =
             IF response.ok
             THEN [pc |-> "done", after |-> @.after, activities |-> response.data,
                   found |-> Len(response.data), added |-> done.added,
                   errors |-> done.errors, fetched |-> TRUE]
             ELSE PollFailed(@)]
       /\ UNCHANGED <<strava, scrape, parkrunResults, parkrunEnabled,
                      tzEast, today, req, res, stats, analytics>>

(* the activities request settles and the call runs to its return *)
Receive(p, response) ==
    /\ polls[p].pc = "fetching"
    /\ IF response.ok
       THEN LET done == ImportAll(response.data,
                                  [runs |-> runs, added |-> 0, errors |-> <<>>])
            IN /\ runs' = done.runs
               /\ syncMetadata' = Now
               /\ polls' = [polls EXCEPT ![p] =
                     [pc |-> "done", after |-> @.after, activities |-> response.data,
                      found |-> Len(response.data), added |-> done.added,
                      errors |-> done.errors, fetched |-> TRUE]]
       ELSE /\ polls' = [polls EXCEPT ![p] = PollFailed(@)]
            /\ UNCHANGED <<runs, syncMetadata>>
    /\ UNCHANGED <<strava, scrape, parkrunResults, parkrunEnabled,
                   tzEast, today, req, res, stats, analytics>>

PollReceive(p) == \E response \in ResponseSet : Receive(p, response)

(* the caller has the result; the next call of this caller starts afresh *)
PollReturn(p) ==
    /\ polls[p].pc = "done"
    /\ polls' = [polls EXCEPT ![p] = NoPoll]
    /\ UNCHANGED <<syncMetadata, strava, scrape, runs, parkrunResults, parkrunEnabled,
                   tzEast, today, req, res, stats, analytics>>

(* a day passes *)
Tick ==
    /\ today < 700 + MaxTicks
    /\ today' = today + 1
    /\ UNCHANGED <<syncMetadata, strava, polls, scrape, runs, parkrunResults,
                   parkrunEnabled, tzEast, req, res, stats, analytics>>

-----------------------------------------------------------------------------
(* ParkrunService.scrapeResults.  In a store that scrapes write, a row of
   table parkrun_results is [id, parkrun_date, runner_name, finish_time,
   position]: parkrun_date is the day of the stored text
   'YYYY-MM-DDT00:00:00.000Z', a date string 'YYYY-MM-DD' is its day. *)

(* what the site may answer for a date: HTTP 404, another failure of the
   request, or a page with a list of rows [runner_name, finish_time, position] *)
PageSet ==
    LET Ann == [runner_name |-> "Ann", finish_time |-> "25:10", position |-> 7]
        Joann == [runner_name |-> "Joann", finish_time |-> "24:30", position |-> 5]
        AnnToo == [runner_name |-> "Ann", finish_time |-> "31:45", position |-> 40]
    IN { [status |-> "404", rows |-> <<>>],
         [status |-> "failed", rows |-> <<>>],
         [status |-> "200", rows |-> <<Ann>>],
         [status |-> "200", rows |-> <<Ann, Joann>>],
         [status |-> "200", rows |-> <<Joann, Ann>>],
         [status |-> "200", rows |-> <<Ann, AnnToo>>] }

(* the dates the site has pages for: the last two Saturdays before day 700 *)
EventDays == {692, 699}

(* the daysBack parameter *)
DaysBackSet == {7, 14}

(* name LIKE '%pattern%', for the names of the pages *)
Like(name, pattern) == name = pattern \/ (name = "Joann" /\ pattern = "Ann")

(* SQLite compares the stored text 'YYYY-MM-DDT00:00:00.000Z' of day d with the
   date string 'YYYY-MM-DD' of day e byte by byte: on the same day the longer
   text is the greater one *)
TimestampGeqDate(d, e) == d >= e
TimestampLeqDate(d, e) == d < e

(* getParkrunResults({startDate, endDate, runnerName}) *)
GetParkrunResults(rows, startDate, endDate, runnerName) ==
    {r \in rows : /\ TimestampGeqDate(r.parkrun_date, startDate)
                  /\ TimestampLeqDate(r.parkrun_date, endDate)
                  /\ Like(r.runner_name, runnerName)}

NextResultId(rows) ==
    IF rows = {} THEN 1
    ELSE 1 + (CHOOSE m \in {r.id : r \in rows} : \A r \in rows : r.id <= m)

(* upsertParkrunResult: INSERT .. ON CONFLICT(parkrun_date, runner_name,
   finish_time) DO UPDATE SET position = excluded.position, .. *)
UpsertParkrunResult(rows, result) ==
    LET same(r) == /\ r.parkrun_date = result.parkrun_date
                   /\ r.runner_name = result.runner_name
                   /\ r.finish_time = result.finish_time
    IN IF \E r \in rows : same(r)
       THEN {IF same(r) THEN [r EXCEPT !.position = result.position] ELSE r : r \in rows}
       ELSE rows \cup {[id |-> NextResultId(rows), parkrun_date |-> result.parkrun_date,
                        runner_name |-> result.runner_name,
                        finish_time |-> result.finish_time,
                        position |-> result.position]}

(* mapRowToResult(row, dateStr): parkrun_date is new Date(dateStr).toISOString() *)
MapRowToResult(row, dateStr) ==
    [parkrun_date |-> dateStr, runner_name |-> row.runner_name,
     finish_time |-> row.finish_time, position |-> row.position]

RECURSIVE StoreResults(_, _, _)
(* the loop over the results of one page, on st = [rows, eventsFound, added,
   updated, errors] *)
StoreResults(results, dateStr, st) ==
    IF results = <<>> THEN st
    ELSE LET result == MapRowToResult(Head(results), dateStr)
             existing == GetParkrunResults(st.rows, dateStr, dateStr, result.runner_name)
             rows == UpsertParkrunResult(st.rows, result)
         IN StoreResults(Tail(results), dateStr,
               IF existing # {}
               THEN [st EXCEPT !.rows = rows, !.updated = @ + 1]
               ELSE [st EXCEPT !.rows = rows, !.added = @ + 1])

(* the Saturdays of the range, the most recent first: the last Saturday before
   today, then every seventh day back while its midnight is not before
   now - daysBack days *)
RECURSIVE SaturdaysFrom(_, _)
SaturdaysFrom(current, daysBack) ==
    IF 2 * current >= Now - 2 * daysBack
    THEN <<current>> \o SaturdaysFrom(current - 7, daysBack)
    ELSE <<>>

Saturdays(daysBack) ==
    LET daysSinceSaturday == OrElse((GetDay(today) + 1) % 7, 7)
    IN SaturdaysFrom(today - daysSinceSaturday, daysBack)

RECURSIVE ScrapeDays(_, _, _)
(* the loop over the Saturdays: the page of the date string is requested;
   HTTP 404 is skipped silently, another failure leaves a message *)
ScrapeDays(saturdays, site, st) ==
    IF saturdays = <<>> THEN st
    ELSE LET dateStr == ISODate(Head(saturdays))
             page == IF dateStr \in DOMAIN site THEN site[dateStr]
                     ELSE [status |-> "404", rows |-> <<>>]
         IN ScrapeDays(Tail(saturdays), site,
               CASE page.status = "200" ->
                      StoreResults(page.rows, dateStr, [st EXCEPT !.eventsFound = @ + 1])
                 [] page.status = "404" -> st
                 [] OTHER -> [st EXCEPT !.errors = @ + 1])

NoScrape(site) ==
    [site |-> site, calls |-> 0, daysBack |-> 0, eventsFound |-> 0,
     resultsAdded |-> 0, resultsUpdated |-> 0, errors |-> 0]

(* scrapeResults(daysBack), the pages of the site being what they are *)
ScrapeResults(daysBack) ==
    /\ scrape.calls < MaxScrapes
    /\ LET st == ScrapeDays(Saturdays(daysBack), scrape.site,
                            [rows |-> parkrunResults, eventsFound |-> 0,
                             added |-> 0, updated |-> 0, errors |-> 0])
       IN /\ parkrunResults' = st.rows
          /\ scrape' = [site |-> scrape.site, calls |-> scrape.calls + 1,
                        daysBack |-> daysBack, eventsFound |-> st.eventsFound,
                        resultsAdded |-> st.added, resultsUpdated |-> st.updated,
                        errors |-> st.errors]
    /\ UNCHANGED <<syncMetadata, strava, polls, runs, parkrunEnabled,
                   tzEast, today, req, res, stats, analytics>>

(* nothing is being imported: no poll is under way and no scrape has run *)
IngestIdle ==
    /\ syncMetadata = Undefined
    /\ strava = [refresh_token |-> FALSE, token_expires_at |-> Undefined]
    /\ polls = [p \in PollIds |-> NoPoll]
    /\ scrape = NoScrape(<<>>)

-----------------------------------------------------------------------------
(* GET /api/recommendations *)

NoRequest == [pending |-> FALSE, weeks |-> Undefined, goalDistance |-> Undefined]
NoResponse ==
    [status |-> 0, invoked |-> FALSE, weeksAhead |-> Undefined,
     goalDistance |-> Undefined, body |-> NoBody]

(* parseInt(req.query.weeks) || 4 *)
ParseWeeks(weeksQuery) == OrElse(weeksQuery, DefaultWeeks)

(* the handler: the response to a request with the given query values *)
HandleRecommendations(weeksQuery, goalQuery) ==
    LET weeks == ParseWeeks(weeksQuery)
        goalDistance == goalQuery
    IN IF weeks < MinWeeks \/ weeks > MaxWeeks
       THEN [NoResponse EXCEPT !.status = 400]
       ELSE IF goalDistance # Undefined /\ (goalDistance < MinGoal \/ goalDistance > MaxGoal)
       THEN [NoResponse EXCEPT !.status = 400]
       ELSE LET g == Generate(weeks, goalDistance)
            IN [status |-> IF g.threw THEN 500 ELSE 200,
                invoked |-> TRUE,
                weeksAhead |-> weeks,
                goalDistance |-> goalDistance,
                body |-> g.body]

(* a client sends GET /api/recommendations?weeks=..&goalDistance=.. *)
Request(weeksQuery, goalQuery) ==
    /\ req' = [pending |-> TRUE, weeks |-> weeksQuery, goalDistance |-> goalQuery]
    /\ res' = NoResponse
    /\ UNCHANGED <<syncMetadata, strava, polls, scrape, runs, parkrunResults, parkrunEnabled, tzEast, today, stats, analytics>>

(* router.get('/'): the pending request is handled and answered *)
GetRecommendations ==
    /\ req.pending
    /\ req' = [req EXCEPT !.pending = FALSE]
    /\ res' = HandleRecommendations(req.weeks, req.goalDistance)
    /\ UNCHANGED <<syncMetadata, strava, polls, scrape, runs, parkrunResults, parkrunEnabled, tzEast, today, stats, analytics>>

(* The scheduler reads a snapshot of the store: every store content, setting of
   config.parkrun.enabled, zone and day is an initial state. *)
Init ==
    /\ runs \in {S \in SUBSET RunUniverse : Cardinality(S) <= MaxRuns}
    /\ parkrunResults = {}
    /\ parkrunEnabled \in BOOLEAN
    /\ tzEast \in BOOLEAN
    /\ today \in TodaySet
    /\ req = NoRequest
    /\ res = NoResponse
    /\ stats = NoStats
    /\ analytics = NoAnalytics
    /\ IngestIdle

Next ==
    \/ \E w \in WeeksQuerySet, g \in GoalQuerySet : Request(w, g)
    \/ GetRecommendations

Spec == Init /\ [][Next]_vars

(* The analysers read a snapshot of the store as well *)
InitStats ==
    /\ runs \in {S \in SUBSET RunUniverse : Cardinality(S) <= MaxRuns}
    /\ parkrunResults \in {S \in SUBSET ParkrunUniverse : Cardinality(S) <= MaxParkruns}
    /\ parkrunEnabled \in BOOLEAN
    /\ tzEast \in BOOLEAN
    /\ today \in TodaySet
    /\ req = NoRequest
    /\ res = NoResponse
    /\ stats = NoStats
    /\ analytics = NoAnalytics
    /\ IngestIdle

NextStats == \E days \in DaysSet : GetConsistency(days)

SpecStats == InitStats /\ [][NextStats]_vars

(* The analysers of StatsService read a snapshot of the store *)
InitAnalytics ==
    /\ runs \in {S \in SUBSET RunRows : Cardinality(S) <= MaxStored}
    /\ parkrunResults \in {S \in SUBSET ParkrunUniverse : Cardinality(S) <= MaxParkruns}
    /\ parkrunEnabled \in BOOLEAN
    /\ tzEast \in BOOLEAN
    /\ today \in TodaySet
    /\ req = NoRequest
    /\ res = NoResponse
    /\ stats = NoStats
    /\ analytics = NoAnalytics
    /\ IngestIdle

NextAnalytics ==
    \/ \E days \in SummaryDaysSet : Summary(days)
    \/ \E period \in PeriodSet : Progress(period)
    \/ ByLocation
    \/ PersonalRecords
    \/ Predict5k
    \/ \E days \in DaysSet : Consistency(days)

SpecAnalytics == InitAnalytics /\ [][NextAnalytics]_vars

(* A long history for the 5k prediction: the i-th of a series of runs on
   successive half days, older than the rows of RunRows but the one of
   November; the even ones are 5000 m at 280 + 2i s/km, the odd ones 3000 m *)
Filler(i) ==
    [id |-> 100 + i, t |-> 1299 + i,
     distance |-> IF i % 2 = 0 THEN 5000 ELSE 3000,
     moving_time |-> IF i % 2 = 0 THEN 1400 + 10 * i ELSE 900,
     total_elevation_gain |-> Undefined, latitude_start |-> Undefined,
     longitude_start |-> Undefined]

(* the store holds the first k runs of the series and up to two rows of RunRows *)
InitPredict ==
    /\ \E k \in 0..MaxFillers, S \in SUBSET RunRows :
          /\ Cardinality(S) <= 2
          /\ runs = {Filler(i) : i \in 1..k} \cup S
    /\ parkrunResults = {}
    /\ parkrunEnabled \in BOOLEAN
    /\ tzEast \in BOOLEAN
    /\ today \in TodaySet
    /\ req = NoRequest
    /\ res = NoResponse
    /\ stats = NoStats
    /\ analytics = NoAnalytics
    /\ IngestIdle

NextPredict == Predict5k

SpecPredict == InitPredict /\ [][NextPredict]_vars

(* The polls of Strava: one call of each caller at a time, on a store that was
   never polled into or holds the activity of an earlier poll *)
InitPoll ==
    /\ \/ runs = {} /\ syncMetadata = Undefined
       \/ runs = {ImportedBefore} /\ syncMetadata = SyncedBefore
    /\ strava \in {[refresh_token |-> FALSE, token_expires_at |-> Undefined],
                  [refresh_token |-> TRUE, token_expires_at |-> Undefined],
                  [refresh_token |-> TRUE, token_expires_at |-> 1402]}
    /\ polls = [p \in PollIds |-> NoPoll]
    /\ scrape = NoScrape(<<>>)
    /\ parkrunResults = {}
    /\ parkrunEnabled = FALSE
    /\ tzEast = FALSE
    /\ today = 700
    /\ req = NoRequest
    /\ res = NoResponse
    /\ stats = NoStats
    /\ analytics = NoAnalytics

NextPoll ==
    \/ \E p \in PollIds : PollStart(p)
    \/ \E p \in PollIds : PollRefreshed(p)
    \/ \E p \in PollIds : PollReceive(p)
    \/ \E p \in PollIds : PollReturn(p)
    \/ Tick

SpecPoll == InitPoll /\ [][NextPoll]_vars

(* The scrapes of the parkrun site, which serves the same pages every time *)
InitScrape ==
    /\ scrape \in {NoScrape(site) : site \in [EventDays -> PageSet]}
    /\ parkrunResults = {}
    /\ runs = {}
    /\ syncMetadata = Undefined
    /\ strava = [refresh_token |-> FALSE, token_expires_at |-> Undefined]
    /\ polls = [p \in PollIds |-> NoPoll]
    /\ parkrunEnabled = TRUE
    /\ tzEast \in BOOLEAN
    /\ today \in TodaySet
    /\ req = NoRequest
    /\ res = NoResponse
    /\ stats = NoStats
    /\ analytics = NoAnalytics

NextScrape == \E daysBack \in DaysBackSet : ScrapeResults(daysBack)

SpecScrape == InitScrape /\ [][NextScrape]_vars

(* The analysers and the scheduler at work on a store that the polls of one
   caller write meanwhile *)
InitFrame ==
    /\ \/ runs = {} /\ syncMetadata = Undefined
       \/ runs = {ImportedBefore} /\ syncMetadata = SyncedBefore
    /\ strava \in {[refresh_token |-> FALSE, token_expires_at |-> Undefined],
                  [refresh_token |-> TRUE, token_expires_at |-> Undefined]}
    /\ polls = [p \in PollIds |-> NoPoll]
    /\ scrape = NoScrape(<<>>)
    /\ parkrunResults = ParkrunUniverse
    /\ parkrunEnabled \in BOOLEAN
    /\ tzEast = FALSE
    /\ today = 700
    /\ req = NoRequest
    /\ res = NoResponse
    /\ stats = NoStats
    /\ analytics = NoAnalytics

NextFrame ==
    \/ \E days \in {Undefined, 30} : Summary(days)
    \/ \E period \in PeriodSet : Progress(period)
    \/ \E days \in {30} : Consistency(days)
    \/ ByLocation
    \/ PersonalRecords
    \/ Predict5k
    \/ \E weeks \in WeeksBackSet : WeeklyDistance(weeks)
    \/ \E w \in {Undefined, 3} : Request(w, Undefined)
    \/ GetRecommendations
    \/ PollStart("manual")
    \/ PollRefreshed("manual")
    \/ PollReceive("manual")
    \/ PollReturn("manual")

SpecFrame == InitFrame /\ [][NextFrame]_vars

-----------------------------------------------------------------------------
(* Claims about the scheduler.  A response is present when res.status # 0; it
   answers the request req. *)

Recs == res.body.recommendations
Supplied(goal) == goal # Undefined

(* the weekly average is exactly 20 km *)
AverageIsTwenty ==
    LET wd == res.body.weeklyData
    IN Len(wd) > 0 /\ SumField(wd, "distance") = 20000 * Len(wd)

(* C1: the target of week 0 is base_target (the goal if supplied, else the
   rounded weekly average, raised to 5 when below 5) and the target of week
   w >= 1 is min(goal or infinity, round(base_target * 1.1^w)); no goal and an
   average of exactly 20 km give 20, 22, 24; with a goal no target exceeds it. *)
C1_TargetProgression ==
    res.status = 200 =>
        LET goal == res.goalDistance
            wd == res.body.weeklyData
            avg == IF Len(wd) = 0 THEN 0
                   ELSE (2 * SumField(wd, "distance") + 1000 * Len(wd)) \div (2000 * Len(wd))
            base0 == IF Supplied(goal) THEN goal ELSE avg
            base == IF base0 < 5 THEN 5 ELSE base0
        IN /\ Recs[1].targetDistance = base
           /\ \A i \in 2..Len(Recs) :
                 Recs[i].targetDistance =
                    IF Supplied(goal) THEN Min(goal, RoundGrowth(base, i - 1))
                    ELSE RoundGrowth(base, i - 1)
           /\ Supplied(goal) => \A i \in 1..Len(Recs) : Recs[i].targetDistance <= goal
           /\ (~Supplied(goal) /\ AverageIsTwenty /\ Len(Recs) >= 3) =>
                 /\ Recs[1].targetDistance = 20
                 /\ Recs[2].targetDistance = 22
                 /\ Recs[3].targetDistance = 24

(* C1 witness: a plan of at least three weeks without a goal from an average of
   exactly 20 km, whose third target is 24 *)
C1_Witness ==
    /\ res.status = 200
    /\ ~Supplied(res.goalDistance)
    /\ AverageIsTwenty
    /\ Len(Recs) >= 3
    /\ Recs[3].targetDistance = 24

EntriesOfType(week, type) == {i \in 1..Len(week.runs) : week.runs[i].type = type}

(* C2: with parkrun enabled every week of a returned plan has exactly one
   parkrun entry, dated on the Saturday of the week with distance 5 km, and no
   long, tempo or easy entry is dated on that Saturday. *)
C2_ParkrunOnSaturday ==
    (res.status = 200 /\ parkrunEnabled) =>
        \A w \in 1..Len(Recs) :
            LET week == Recs[w]
                saturday == CHOOSE d \in week.weekStart..(week.weekStart + 6) :
                                GetDay(d) = Saturday
            IN /\ Cardinality(EntriesOfType(week, "parkrun")) = 1
               /\ \A i \in 1..Len(week.runs) :
                     IF week.runs[i].type = "parkrun"
                     THEN week.runs[i].date = saturday /\ week.runs[i].distance = 5
                     ELSE week.runs[i].date # saturday

(* C3: generate returns a plan with one week per requested week and never throws *)
C3_GenerateTotal ==
    res.invoked => (res.status = 200 /\ Len(Recs) = res.weeksAhead)

OutOfRange(x, lo, hi) == x # Undefined /\ (x < lo \/ x > hi)

(* C4: a request whose weeks value is outside 1..12 or whose goalDistance is
   outside 5..200 is answered 400 and generate is not invoked *)
C4_RejectsOutOfRange ==
    (res.status # 0 /\ (OutOfRange(req.weeks, 1, 12) \/ OutOfRange(req.goalDistance, 5, 200)))
        => (res.status = 400 /\ ~res.invoked)

(* the pool of assignable days: the run-day set, minus Saturday with parkrun *)
Pool == Range(res.body.runDays) \ (IF parkrunEnabled THEN {Saturday} ELSE {})

DayOfType(week, type) ==
    LET i == CHOOSE j \in 1..Len(week.schedule) : week.schedule[j].type = type
    IN week.schedule[i].day

(* C5: if the pool contains Saturday or Sunday the long run is placed on a
   weekend day, otherwise on the first day of the pool *)
C5_LongRunPlacement ==
    res.status = 200 =>
        \A w \in 1..Len(Recs) :
            LET long == DayOfType(Recs[w], "long")
            IN IF Pool \cap {Saturday, Sunday} # {}
               THEN long \in {Saturday, Sunday}
               ELSE \A d \in Pool : long <= d

CircularDistance(a, b) == Min(Abs(a - b), 7 - Abs(a - b))

(* C6: if a remaining day (pool minus the long-run day) is at circular distance
   >= 2 from the long-run day, the tempo run is placed on such a day; otherwise
   on a remaining day *)
C6_TempoPlacement ==
    res.status = 200 =>
        \A w \in 1..Len(Recs) :
            LET long == DayOfType(Recs[w], "long")
                tempo == DayOfType(Recs[w], "tempo")
                remaining == Pool \ {long}
            IN IF \E d \in remaining : CircularDistance(d, long) >= 2
               THEN tempo \in remaining /\ CircularDistance(tempo, long) >= 2
               ELSE tempo \in remaining

(* C7: the long run's distance is round(0.25 * effective_target), where
   effective_target is the week's target minus 5 (not below 0) with parkrun and
   the week's target otherwise; every easy run's distance is
   min(10, round(0.30 * effective_target)), so at most 10 *)
C7_RunDistances ==
    res.status = 200 =>
        \A w \in 1..Len(Recs) :
            LET week == Recs[w]
                minus == week.targetDistance - 5
                eff == IF parkrunEnabled THEN (IF minus < 0 THEN 0 ELSE minus)
                       ELSE week.targetDistance
            IN \A i \in 1..Len(week.runs) :
                  LET x == week.runs[i].distance
                  IN /\ week.runs[i].type = "long" =>
                          (4 * x - 2 <= eff /\ eff < 4 * x + 2)
                     /\ week.runs[i].type = "easy" =>
                          /\ x <= 10
                          /\ \/ (10 * x - 5 <= 3 * eff /\ 3 * eff < 10 * x + 5)
                             \/ (x = 10 /\ 3 * eff >= 10 * 10 + 5)

(* C7 witness: a week with parkrun whose long run is a quarter of target - 5
   and whose easy run is capped at 10 km *)
C7_Witness ==
    /\ res.status = 200
    /\ parkrunEnabled
    /\ \E w \in 1..Len(Recs) :
          /\ Recs[w].targetDistance >= 40
          /\ \E i \in EntriesOfType(Recs[w], "easy") : Recs[w].runs[i].distance = 10
          /\ \E i \in EntriesOfType(Recs[w], "long") : Recs[w].runs[i].distance >= 9

(* the runs of the last 56 days, and the weekdays holding >= 20% of them *)
LastEightWeeks == {r \in runs : r.t >= 2 * (today - 56) + 1}
OnWeekday(d) == {r \in LastEightWeeks : (r.t \div 2) % 7 = d}
Qualifying ==
    {d \in 0..6 : LastEightWeeks # {} /\
                  5 * Cardinality(OnWeekday(d)) >= Cardinality(LastEightWeeks)}

(* C8: the run-day set is the set of weekdays each holding >= 20% of the runs
   of the last 56 days when at least 2 qualify, else {Mon, Wed, Fri, Sun};
   Saturday is added iff parkrun is enabled and Saturday is not a member *)
C8_RunDaySet ==
    res.invoked =>
        LET base == IF Cardinality(Qualifying) >= 2 THEN Qualifying ELSE {1, 3, 5, 0}
            expected == IF parkrunEnabled THEN base \cup {Saturday} ELSE base
        IN /\ Range(res.body.runDays) = expected
           /\ Len(res.body.runDays) = Cardinality(expected)

(* C8 witness: five weekdays hold exactly 20% each and all are run days,
   Saturday being one of them without parkrun *)
C8_Witness ==
    /\ res.invoked
    /\ ~parkrunEnabled
    /\ Cardinality(Qualifying) = 5
    /\ Saturday \in Qualifying
    /\ \A d \in Qualifying : 5 * Cardinality(OnWeekday(d)) = Cardinality(LastEightWeeks)
    /\ Len(res.body.runDays) = 5

(* C9: week 0 starts on the Monday of the current week and week w >= 1 starts
   exactly 7*w days after week 0 *)
C9_ForwardLooking ==
    res.status = 200 =>
        /\ GetDay(Recs[1].weekStart) = 1
        /\ Recs[1].weekStart <= today /\ today < Recs[1].weekStart + 7
        /\ \A i \in 2..Len(Recs) : Recs[i].weekStart = Recs[1].weekStart + 7 * (i - 1)

-----------------------------------------------------------------------------
(* Claims about the consistency analyser *)

(* the distinct dates with a qualifying activity inside the lookback window *)
WindowDates(days) ==
    {UtcDay(r.t) : r \in {x \in runs : UtcDay(x.t) >= UtcDay(Now) - days}}
        \cup (IF parkrunEnabled
              THEN {d \in parkrunResults : d >= UtcDay(Now) - days} ELSE {})

(* the length of the maximal run of consecutive days of D that ends at last *)
RunEndingAt(D, last) ==
    CHOOSE n \in 1..(Cardinality(D)) :
        /\ \A k \in 0..(n - 1) : (last - k) \in D
        /\ (last - n) \notin D

(* C10: current_streak is the length of the maximal run of consecutive calendar
   days ending at the most recent date of the set of distinct dates with a
   qualifying activity inside the lookback window, and 0 when that set is empty *)
C10_CurrentStreak ==
    stats.called =>
        /\ ~stats.threw
        /\ LET D == WindowDates(stats.period_days)
           IN stats.current_streak =
                 IF D = {} THEN 0
                 ELSE RunEndingAt(D, CHOOSE m \in D : \A d \in D : d <= m)

(* the distinct calendar dates of all qualifying activities of all time *)
AllDates ==
    {LocalDay(r.t) : r \in runs} \cup (IF parkrunEnabled THEN parkrunResults ELSE {})

(* the length of the longest run of consecutive days of D *)
LongestRun(D) ==
    IF D = {} THEN 0
    ELSE CHOOSE n \in 1..Cardinality(D) :
            /\ \E last \in D : RunEndingAt(D, last) = n
            /\ \A last \in D : RunEndingAt(D, last) <= n

(* C11: longest_streak is the length of the longest run of consecutive calendar
   days in the set of distinct dates of all qualifying activities of all time,
   whatever the lookback window; 0 for an empty store and 1 when no two dates
   are adjacent *)
C11_LongestStreak ==
    stats.called =>
        /\ ~stats.threw
        /\ stats.longest_streak = LongestRun(AllDates)
        /\ (AllDates = {}) => stats.longest_streak = 0
        /\ (AllDates # {} /\ \A d \in AllDates : (d + 1) \notin AllDates)
              => stats.longest_streak = 1

(* C12: days_since_last_run is the whole number of days between now and the
   most recent all-time activity date, 0 when an activity occurred today (a
   single activity today gives both streaks 1), and the lookback argument when
   the store never held an activity *)
C12_DaysSinceLast ==
    stats.called =>
        /\ ~stats.threw
        /\ stats.days_since_last_run =
              IF AllDates = {} THEN stats.period_days
              ELSE today - (CHOOSE m \in AllDates : \A d \in AllDates : d <= m)
        /\ (today \in AllDates) => stats.days_since_last_run = 0
        /\ (AllDates = {today}) =>
              (stats.current_streak = 1 /\ stats.longest_streak = 1)

-----------------------------------------------------------------------------
(* Claims about the analysers of StatsService.  analytics.op names the request
   answered and analytics.value is its answer. *)

(* C13: with no runs and no event results stored no analyser throws and each
   returns its empty value: the summary is 0 in every numeric field with
   weekday 'N/A', pace progress and location clusters are empty lists, both
   streaks of the consistency statistics are 0, all four personal records and
   the 5k prediction are absent *)
C13_EmptyStore ==
    (runs = {} /\ parkrunResults = {}) =>
        /\ (analytics.op = "summary") =>
              /\ analytics.value.total_runs = 0
              /\ analytics.value.total_distance = 0
              /\ analytics.value.total_time = 0
              /\ analytics.value.average_distance = Zero
              /\ analytics.value.average_pace_seconds = Zero
              /\ analytics.value.longest_run = 0
              /\ analytics.value.most_frequent_day = "N/A"
        /\ (analytics.op \in {"progress", "by-location"}) => DOMAIN analytics.value = {}
        /\ (analytics.op = "consistency") =>
              /\ ~stats.threw
              /\ stats.current_streak = 0
              /\ stats.longest_streak = 0
        /\ (analytics.op = "personal-records") =>
              /\ analytics.value.longest_distance = <<>>
              /\ analytics.value.fastest_5k = <<>>
              /\ analytics.value.fastest_10k = <<>>
              /\ analytics.value.most_elevation = <<>>
        /\ (analytics.op = "predict-5k") => ~analytics.value.present

(* C14: a summary over a non-empty set of activities has average_distance equal
   to total_distance / total_runs exactly *)
C14_AverageDistance ==
    (analytics.op = "summary" /\ analytics.value.total_runs > 0) =>
        /\ analytics.value.total_distance # Undefined
        /\ analytics.value.average_distance.d # 0
        /\ analytics.value.average_distance.n * analytics.value.total_runs
              = analytics.value.total_distance * analytics.value.average_distance.d

(* the mean of the whole numbers f[x], x in S, as a ratio *)
MeanOver(S, f) == Ratio(SumOver(S, f), Cardinality(S))

(* a ratio equals another *)
SameRatio(a, b) == a.d # 0 /\ b.d # 0 /\ a.n * b.d = b.n * a.d

(* C15: average_pace_seconds of a summary is the unweighted mean of
   duration * 1000 / distance over the activities of the window with
   distance > 0 and duration > 0, the parkrun results (5000 m in the finish
   time) included when they are folded into the summary *)
C15_AveragePace ==
    analytics.op = "summary" =>
        LET days == analytics.days
            paced == {r \in RunStatsRows(days) : r.distance > 0 /\ r.moving_time > 0}
            prs == IF parkrunEnabled THEN SummaryParkruns(days) ELSE {}
            timed == {pr \in prs : ParseTimeToSeconds(FinishTimeParts(pr)) > 0}
            sum == SumOver(paced, [r \in paced |-> (r.moving_time * 1000) \div r.distance])
                     + SumOver(timed, [pr \in timed |->
                          (ParseTimeToSeconds(FinishTimeParts(pr)) * 1000) \div 5000])
            count == Cardinality(paced) + Cardinality(timed)
        IN IF count = 0 THEN analytics.value.average_pace_seconds = Zero
           ELSE SameRatio(analytics.value.average_pace_seconds, Ratio(sum, count))

(* a run with zero distance or zero duration, and the others *)
Degenerate(r) == r.distance = 0 \/ r.moving_time = 0
Sound(S) == {r \in S : ~Degenerate(r)}
SoundPaces(S) == [r \in Sound(S) |-> (r.moving_time * 1000) \div r.distance]

(* C16: a run with zero distance or zero duration raises no error and
   contributes to no pace average (summary average pace, pace-progress bucket
   average, 5k prediction, fastest 5k and 10k), while it is counted in
   total_runs and in the run_count of its bucket; the summary is taken without
   parkrun results *)
C16_DegenerateRuns ==
    /\ (analytics.op = "summary"
          /\ (~parkrunEnabled \/ SummaryParkruns(analytics.days) = {})) =>
          LET rows == RunStatsRows(analytics.days)
          IN /\ analytics.value.total_runs = Cardinality(rows)
             /\ IF Sound(rows) = {} THEN analytics.value.average_pace_seconds = Zero
                ELSE SameRatio(analytics.value.average_pace_seconds,
                               MeanOver(Sound(rows), SoundPaces(rows)))
    /\ (analytics.op = "progress") =>
          \A i \in 1..Len(analytics.value) :
             LET entry == analytics.value[i]
                 bucket == {r \in runs : PeriodKey(analytics.period, r) = entry.period}
             IN /\ entry.run_count = Cardinality(bucket)
                /\ entry.avg_pace_seconds =
                      IF Sound(bucket) = {} THEN 0
                      ELSE Round(SumOver(Sound(bucket), SoundPaces(bucket)),
                                 Cardinality(Sound(bucket)))
    /\ (analytics.op = "predict-5k") =>
          LET far == {r \in Sound(runs) : r.distance >= 4000}
          IN IF far = {} THEN ~analytics.value.present
             ELSE /\ analytics.value.present
                  /\ analytics.value.predicted_seconds =
                        Round(5 * SumOver(far, SoundPaces(runs)), Cardinality(far))
    /\ (analytics.op = "personal-records") =>
          \A record \in {analytics.value.fastest_5k, analytics.value.fastest_10k} :
             record # <<>> => \A r \in runs : Degenerate(r) => record[1].date # r.t

(* the calendar period of a run: the week (Monday to Sunday) or the month of
   the UTC date of its start *)
CalendarPeriod(period, r) ==
    IF period = "weekly" THEN (UtcDay(r.t) + 6) \div 7 ELSE MonthOf(UtcDay(r.t))

(* C17: pace progress has one entry for each calendar period (week or month)
   that holds a run and none for another period, in strictly ascending
   period_start order, and every run is counted in exactly one entry, so the
   run_counts sum to the number of stored runs *)
C17_PaceProgressEntries ==
    analytics.op = "progress" =>
        LET v == analytics.value
            in(p) == {r \in runs : CalendarPeriod(analytics.period, r) = p}
            periods == {CalendarPeriod(analytics.period, r) : r \in runs}
        IN /\ Len(v) = Cardinality(periods)
           /\ \A p \in periods :
                 \E i \in 1..Len(v) :
                    /\ v[i].run_count = Cardinality(in(p))
                    /\ \E r \in in(p) : v[i].period_start = r.t
                    /\ \A r \in in(p) : v[i].period_start <= r.t
           /\ \A i \in 1..(Len(v) - 1) : v[i].period_start < v[i + 1].period_start
           /\ SumSeq([i \in 1..Len(v) |-> v[i].run_count]) = Cardinality(runs)

(* x rounded to 4 decimals: the multiple of 1/10000 degree nearest to x *)
Nearest(x) ==
    CHOOSE k \in {x \div 10 - 1, x \div 10, x \div 10 + 1} :
        10 * k - 5 < x /\ x < 10 * k + 5

HasCoordinates(r) == r.latitude_start # Undefined /\ r.longitude_start # Undefined

(* the runs with coordinates whose rounded latitude and longitude are lat, lon *)
RunsAt(lat, lon) ==
    {r \in runs : /\ HasCoordinates(r)
                  /\ Nearest(r.latitude_start) = lat
                  /\ Nearest(r.longitude_start) = lon}

(* C18: a run lacking a start latitude or longitude is in no cluster; two runs
   with coordinates are in the same cluster iff their latitudes rounded to 4
   decimals are equal and their longitudes rounded to 4 decimals are equal;
   run_count, total_distance and avg_distance = total_distance / run_count of
   a cluster aggregate exactly its members; the clusters come in
   non-increasing run_count order *)
C18_LocationClusters ==
    analytics.op = "by-location" =>
        LET v == analytics.value
            n == Cardinality(DOMAIN v)
        IN /\ \A i, j \in 1..n : (v[i].lat = v[j].lat /\ v[i].lon = v[j].lon) => i = j
           /\ \A r \in runs :
                 HasCoordinates(r) =>
                    \E i \in 1..n : v[i].lat = Nearest(r.latitude_start)
                                    /\ v[i].lon = Nearest(r.longitude_start)
           /\ \A i \in 1..n :
                 LET members == RunsAt(v[i].lat, v[i].lon)
                 IN /\ members # {}
                    /\ v[i].run_count = Cardinality(members)
                    /\ v[i].total_distance = SumOver(members, [r \in members |-> r.distance])
                    /\ v[i].avg_distance.d # 0
                    /\ v[i].avg_distance.n * v[i].run_count
                          = v[i].total_distance * v[i].avg_distance.d
           /\ SumSeq([i \in 1..n |-> v[i].run_count])
                 = Cardinality({r \in runs : HasCoordinates(r)})
           /\ \A i \in 1..(n - 1) : v[i].run_count >= v[i + 1].run_count

(* C18 witness: the answer for a store with a run without coordinates, two
   runs of different coordinates that round to the same place and a run that
   rounds to the same latitude but another longitude: two clusters, the one of
   two runs first *)
C18_Witness ==
    /\ analytics.op = "by-location"
    /\ \E r \in runs : ~HasCoordinates(r)
    /\ Cardinality(DOMAIN analytics.value) = 2
    /\ analytics.value[1].run_count = 2
    /\ analytics.value[2].run_count = 1
    /\ analytics.value[1].lat = analytics.value[2].lat
    /\ \E r1, r2 \in RunsAt(analytics.value[1].lat, analytics.value[1].lon) :
          r1.latitude_start # r2.latitude_start /\ r1.longitude_start # r2.longitude_start

-----------------------------------------------------------------------------
(* Claims about the personal records *)

Records == analytics.value

(* the runs of at least metres with a pace, and the fastest of them *)
Qualified(metres) == {r \in runs : r.distance >= metres /\ r.moving_time > 0}
FastestOf(S) ==
    {r \in S : \A x \in S : r.moving_time * x.distance <= x.moving_time * r.distance}

(* the record names the fastest run of at least metres, with its pace
   extrapolated to metres as the time *)
ExtrapolatedRecord(record, metres) ==
    IF Qualified(metres) = {} THEN record = <<>>
    ELSE /\ record # <<>>
         /\ \E r \in FastestOf(Qualified(metres)) :
               /\ record[1].date = r.t
               /\ record[1].time.minutes * 60 + record[1].time.secs
                     = Round(r.moving_time * metres, r.distance)

(* C19: fastest_5k is taken from the run with the lowest pace per km among the
   runs of at least 5000 m, absent when there is none, and its time is that
   pace extrapolated to exactly 5000 m (pace per km * 5), not the run's own
   moving time: 25:00 for a 6 km run in 30:00; fastest_10k likewise with
   10000 m and factor 10 *)
C19_FastestExtrapolated ==
    analytics.op = "personal-records" =>
        /\ ExtrapolatedRecord(Records.fastest_5k, 5000)
        /\ ExtrapolatedRecord(Records.fastest_10k, 10000)
        /\ (\E r \in FastestOf(Qualified(5000)) : r.distance = 6000 /\ r.moving_time = 1800)
              => Records.fastest_5k[1].time = [minutes |-> 25, secs |-> 0]

(* the first of the runs S in the order the method scans them (latest start first) *)
FirstScanned(S) == CHOOSE r \in S : \A x \in S : x.t <= r.t

Gain(r) == IF r.total_elevation_gain = Undefined THEN 0 ELSE r.total_elevation_gain

(* C20: longest_distance is the run with the greatest distance and
   most_elevation the run with the greatest total_elevation_gain among all
   runs, the first scanned on ties, each reported with that run's own date *)
C20_Maxima ==
    analytics.op = "personal-records" =>
        /\ (\E r \in runs : r.distance > 0) =>
              LET top == {r \in runs : \A x \in runs : x.distance <= r.distance}
              IN /\ Records.longest_distance # <<>>
                 /\ Records.longest_distance[1].distance = FirstScanned(top).distance
                 /\ Records.longest_distance[1].date = FirstScanned(top).t
        /\ (\E r \in runs : Gain(r) > 0) =>
              LET top == {r \in runs : \A x \in runs : Gain(x) <= Gain(r)}
              IN /\ Records.most_elevation # <<>>
                 /\ Records.most_elevation[1].elevation = Gain(FirstScanned(top))
                 /\ Records.most_elevation[1].date = FirstScanned(top).t

-----------------------------------------------------------------------------
(* Claims about the 5k prediction *)

(* the n most recent runs by start date *)
MostRecent(n) == {r \in runs : Cardinality({x \in runs : x.t > r.t}) < n}

(* the prediction is round(5 * mean pace) over the runs S, absent for none *)
PredictedFrom(S) ==
    IF S = {} THEN ~analytics.value.present
    ELSE /\ analytics.value.present
         /\ analytics.value.predicted_seconds =
               Round(5 * SumOver(S, [r \in S |-> (r.moving_time * 1000) \div r.distance]),
                     Cardinality(S))

(* C21 as stated: the prediction considers the 20 most recent runs, keeps those
   of at least 4000 m, is absent when none qualifies and otherwise
   round(5 * mean pace of the qualifying runs) *)
C21_PredictionAsStated ==
    analytics.op = "predict-5k" =>
        PredictedFrom({r \in MostRecent(20) : r.distance >= 4000})

(* C21, amended: the prediction considers the 20 most recent runs, keeps those
   of at least 4000 m that have a positive pace (a positive moving time), is
   absent when none is kept and otherwise round(5 * mean pace of the kept
   runs); a run older than the 20 most recent never influences the result *)
C21_Prediction ==
    analytics.op = "predict-5k" =>
        PredictedFrom({r \in MostRecent(20) : r.distance >= 4000 /\ r.moving_time > 0})

(* C21 witness: a prediction from a store of more than 20 runs in which a run
   of at least 4000 m with a pace is older than the 20 most recent and a run of
   at least 4000 m without moving time is among them *)
C21_Witness ==
    /\ analytics.op = "predict-5k"
    /\ analytics.value.present
    /\ Cardinality(runs) > 20
    /\ \E r \in runs \ MostRecent(20) : r.distance >= 4000 /\ r.moving_time > 0
    /\ \E r \in MostRecent(20) : r.distance >= 4000 /\ r.moving_time = 0

-----------------------------------------------------------------------------
(* Claims about the import of activities and event results *)

StravaIds(rs) == {r.strava_id : r \in rs}
Listed(poll) == {poll.activities[i].id : i \in 1..Len(poll.activities)}

(* C23: through every step of every run of polls, overlapping ones included,
   table runs holds at most one row per strava_id, no stored row is replaced,
   and a poll that returns has counted in added exactly the rows it inserted,
   none of which has a strava_id that was stored before *)
C23_OneRunPerActivity ==
    [][/\ \A r1, r2 \in runs' : r1.strava_id = r2.strava_id => r1 = r2
       /\ runs \subseteq runs'
       /\ \A p \in PollIds :
             polls[p].pc = "fetching" /\ polls'[p].pc = "done" =>
                /\ polls'[p].added = Cardinality(runs' \ runs)
                /\ StravaIds(runs' \ runs) \cap StravaIds(runs) = {}]_vars

(* two polls that overlapped (both read the same last_strava_sync, which is not
   the time of this day's sync) were both sent the same run: one imported it,
   the other counted nothing *)
C23_Witness ==
    /\ polls["scheduled"].pc = "done" /\ polls["scheduled"].fetched
    /\ polls["manual"].pc = "done" /\ polls["manual"].fetched
    /\ polls["scheduled"].after = polls["manual"].after
    /\ polls["scheduled"].after # Now
    /\ polls["scheduled"].added = 1
    /\ polls["manual"].added = 0
    /\ \E r \in runs : r.strava_id \in Listed(polls["scheduled"]) \cap Listed(polls["manual"])

(* C22: a step of an analyser or of the scheduler (a request to
   GET /api/recommendations, its answer by generate, and every call behind
   /api/stats: summary, pace progress, consistency, location clusters,
   personal records, 5k prediction, weekly distance) leaves table runs, table
   parkrun_results and last_strava_sync as they are, whatever the polls wrote
   before and write after *)
C22_ReadOnly ==
    [][(analytics' # analytics \/ stats' # stats \/ res' # res \/ req' # req) =>
          /\ runs' = runs
          /\ parkrunResults' = parkrunResults
          /\ syncMetadata' = syncMetadata]_vars

(* an analyser and the scheduler have answered and a poll has imported two runs
   and set last_strava_sync *)
C22_Witness ==
    /\ analytics.op = "weekly-distance"
    /\ res.status = 200
    /\ polls["manual"].pc = "done" /\ polls["manual"].added = 2
    /\ Cardinality(runs) = 2
    /\ syncMetadata = Now

(* C24: a scrape counts in resultsAdded exactly the rows it adds to table
   parkrun_results (a result whose date, runner name and finish time are
   stored adds no row and is counted in resultsUpdated), and a scrape of the
   same range right after another adds no row and reports resultsAdded = 0 *)
C24_ScrapeCounts ==
    [][scrape'.calls = scrape.calls + 1 =>
          /\ scrape'.resultsAdded =
                Cardinality(parkrunResults') - Cardinality(parkrunResults)
          /\ scrape.calls > 0 /\ scrape'.daysBack = scrape.daysBack =>
                /\ Cardinality(parkrunResults') = Cardinality(parkrunResults)
                /\ scrape'.resultsAdded = 0]_vars

(* C26: a poll that ends without the activities request having resolved
   returns found = 0 and added = 0 with an error message, and its last step
   leaves table runs and last_strava_sync as they were; last_strava_sync
   changes only in the step in which a poll whose request resolved returns *)
C26_FailedPoll ==
    [][/\ \A p \in PollIds :
             polls[p].pc # "done" /\ polls'[p].pc = "done" /\ ~polls'[p].fetched =>
                /\ polls'[p].found = 0
                /\ polls'[p].added = 0
                /\ polls'[p].errors # <<>>
                /\ runs' = runs
                /\ syncMetadata' = syncMetadata
       /\ syncMetadata' # syncMetadata =>
             \E p \in PollIds :
                polls[p].pc = "fetching" /\ polls'[p].pc = "done" /\ polls'[p].fetched]_vars

(* a poll whose activities request was rejected has returned after another
   poll set last_strava_sync, which it had read; the time and the runs stand *)
C26_Witness ==
    /\ polls["scheduled"].pc = "done" /\ ~polls["scheduled"].fetched
    /\ polls["scheduled"].errors # <<>>
    /\ polls["scheduled"].after = syncMetadata
    /\ syncMetadata \notin {Undefined, SyncedBefore}
    /\ polls["manual"].pc = "done" /\ polls["manual"].fetched /\ polls["manual"].added > 0
    /\ runs # {}

-----------------------------------------------------------------------------
(* Further claims about the scheduler and the consistency analyser *)

WeekdayName(d) == <<"Sun", "Mon", "Tue", "Wed", "Thu", "Fri", "Sat">>[d + 1]

(* C25: the rationale of a plan names the weekdays of the run-day set, each
   under its name with 0 = Sunday .. 6 = Saturday, in the order of the set *)
C25_RationaleDays ==
    res.status = 200 =>
        /\ Len(res.body.rationale.days) = Len(res.body.runDays)
        /\ \A i \in 1..Len(res.body.runDays) :
              res.body.rationale.days[i] = WeekdayName(res.body.runDays[i])

(* C27: the current streak that getConsistencyStats computes never exceeds the
   longest streak it computes *)
C27_StreakOrder ==
    stats.called => stats.locals.currentStreak <= stats.locals.longestStreak

(* C28: in every week of a plan the dates of the entries are pairwise
   distinct and lie between week_start, a Monday, and the Sunday after it, and
   the entry scheduled for weekday k is dated on a day whose weekday is k *)
C28_WeekDates ==
    res.status = 200 =>
        \A w \in 1..Len(Recs) :
            LET week == Recs[w]
            IN /\ GetDay(week.weekStart) = 1
               /\ \A i, j \in 1..Len(week.runs) :
                     i # j => week.runs[i].date # week.runs[j].date
               /\ \A i \in 1..Len(week.runs) :
                     /\ week.runs[i].date >= week.weekStart
                     /\ week.runs[i].date <= week.weekStart + 6
               /\ \A e \in Range(week.schedule) :
                     \E i \in 1..Len(week.runs) :
                        /\ week.runs[i].type = e.type
                        /\ GetDay(week.runs[i].date) = e.day

(* C29: in every week of a plan the distances of the entries, the event's
   5 km included, add up to at most the week's target_distance *)
C29_WeekWithinTarget ==
    res.status = 200 =>
        \A w \in 1..Len(Recs) :
            SumField(Recs[w].runs, "distance") <= Recs[w].targetDistance

MondayOf(d) == d - ((d + 6) % 7)
InWindow == {r \in runs : r.t >= Now - 2 * 56}
WeeksWithRuns == {MondayOf(r.t \div 2) : r \in InWindow}
MetresInWindow == SumOver(InWindow, [r \in InWindow |-> r.distance])

(* C30: weeklyAverage and runsPerWeek (in tenths) are the means over the
   Monday-based weeks of the last 56 days that hold a run, 0 without such a
   week, and without a goal the target of week 0 is the rounded average,
   at least 5 *)
C30_MeanOverWeeksWithRuns ==
    res.status = 200 =>
        LET n == Cardinality(WeeksWithRuns)
        IN /\ res.body.weeklyAverage =
                 (IF n = 0 THEN 0 ELSE Round(MetresInWindow, 100 * n))
           /\ res.body.currentRunsPerWeek =
                 (IF n = 0 THEN 0 ELSE Round(10 * Cardinality(InWindow), n))
           /\ res.goalDistance = Undefined =>
                 Recs[1].targetDistance =
                    (IF n = 0 THEN 5 ELSE Max(5, Round(MetresInWindow, 1000 * n)))

(* a single run of 20 km in an earlier week of the window, none in the
   current week: the average is 20.0 km, one run per week, target 20 *)
C30_Witness ==
    /\ res.status = 200
    /\ res.goalDistance = Undefined
    /\ Cardinality(runs) = 1
    /\ \E r \in runs : /\ r.distance = 20000
                       /\ r \in InWindow
                       /\ MondayOf(r.t \div 2) # MondayOf(today)
    /\ res.body.weeklyAverage = 200
    /\ res.body.currentRunsPerWeek = 10
    /\ Recs[1].targetDistance = 20

====
